---- MODULE Spec2Model ----
(***************************************************************************)
(* libordpat, Python part: the four ordinal pattern encoders of            *)
(* encoders.py (plain, overlap, lookup, vectorised), the lookup table      *)
(* builder, the input validation of utils.py and the dispatcher ordpat of  *)
(* ordpat.py, with the two module-level caches _scope and _lookup_buf.     *)
(*                                                                         *)
(* An ndarray is a record [shape, data]: data is the row-major (C order)   *)
(* sequence of its elements, shape has one or two entries.  Samples are    *)
(* doubles in the code; only their order is ever used, so they are         *)
(* integers here.  Python indices are 0-based: At(s, k) reads element k.   *)
(***************************************************************************)
EXTENDS Integers, Sequences, FiniteSets, TLC

\* ------------------------------------------------------------------ bounds
\* Samples are drawn from 0..MaxVal, series have 1..MaxLen samples (the
\* fixed series of the scenarios apart), orders are drawn from 2..MaxOrd
\* and lags from 1..MaxLag.
MaxVal == 2
MaxLen == 4
MaxOrd == 3
MaxLag == 2

\* ------------------------------------------------------- program constants
\* Largest order of the lookup algorithm and of create_lookup_table.
LOOKUP_MAX_ORDER == 10
\* Largest order of the plain, overlap and vectorised algorithms.
NATIVE_MAX_ORDER == 20
\* Largest order prepare_input_data lets through.
INPUT_MAX_ORDER == 255

\* ------------------------------------------------------------------ arrays
At(s, k) == s[k + 1]

Min(a, b) == IF a < b THEN a ELSE b
Max(a, b) == IF a > b THEN a ELSE b

Arr(shape, data, dtype) == [shape |-> shape, data |-> data, dtype |-> dtype]

\* A one-dimensional array of doubles holding the sequence s.
Arr1(s) == Arr(<<Len(s)>>, s, "double")

\* None and a present value, for what Python leaves optional.
None == <<>>
Some(v) == <<v>>

ndim(a) == Len(a.shape)

size(a) == IF ndim(a) = 1 THEN a.shape[1] ELSE a.shape[1] * a.shape[2]

\* Number of elements of one index along axis 0.
RowLen(a) == IF ndim(a) = 1 THEN 1 ELSE a.shape[2]

\* x.reshape(-1)
flatten(a) == Arr(<<size(a)>>, a.data, a.dtype)

\* A Python axis number (negative counts from the end) as 0-based axis.
NormAxis(a, axis) == IF axis < 0 THEN axis + ndim(a) ELSE axis

\* The transpose of a two-dimensional array.
Transpose(a) ==
    LET r == a.shape[1]
        c == a.shape[2]
    IN  Arr(<<c, r>>, [p \in 1..(r * c) |->
            LET i == (p - 1) \div r
                j == (p - 1) % r
            IN  a.data[j * c + i + 1]], a.dtype)

\* numpy.moveaxis(a, src, dst) for arrays of one or two dimensions: moving
\* an axis onto itself changes nothing, moving axis 1 to 0 or 0 to 1 is
\* the transpose.
moveaxis(a, src, dst) ==
    IF NormAxis(a, src) = NormAxis(a, dst) THEN a ELSE Transpose(a)

\* Python's a[start:stop] along axis 0, stop = None for an open end;
\* negative bounds count from the end and both are clamped to the array.
SliceBound(n, b) == IF b < 0 THEN Max(b + n, 0) ELSE Min(b, n)

Slice0(a, start, stop) ==
    LET n  == a.shape[1]
        lo == SliceBound(n, start)
        hi == IF stop = None THEN n ELSE SliceBound(n, stop[1])
        m  == Max(hi - lo, 0)
        w  == RowLen(a)
    IN  Arr(IF ndim(a) = 1 THEN <<m>> ELSE <<m, a.shape[2]>>,
            SubSeq(a.data, lo * w + 1, (lo + m) * w), a.dtype)

\* Python's s[start:stop:step] on a one-dimensional sequence (start >= 0,
\* step >= 1): the elements start, start + step, ... below min(stop, len).
StepSlice(s, start, stop, step) ==
    LET hi == SliceBound(Len(s), stop)
        lo == SliceBound(Len(s), start)
        m  == IF hi > lo THEN (hi - lo + step - 1) \div step ELSE 0
    IN  [p \in 1..m |-> At(s, lo + (p - 1) * step)]

\* ------------------------------------------------------------ fixed widths
Pow2(w) == 2 ^ w

\* An unsigned integer of w bits.  Every number of the model is below 2^31,
\* so the reduction is the identity for w = 32 and w = 64.
Wrap(v, w) == IF w >= 31 THEN v ELSE v % Pow2(w)

factorial(n) == IF n <= 1 THEN 1 ELSE LET F[k \in 1..n] == IF k = 1 THEN 1 ELSE k * F[k - 1] IN F[n]


\* ---------------------------------------------------------------- utils.py
\* A Python scalar argument: the integer v (isint) or the non-integer
\* v + 1/2.
PyInt(v) == [isint |-> TRUE, v |-> v]
PyFrac(v) == [isint |-> FALSE, v |-> v]

\* What a call returns: an array, or the exception it raised.
Ok(a) == [err |-> "", shape |-> a.shape, data |-> a.data, dtype |-> a.dtype]
Raise(e) == [err |-> e, shape |-> <<>>, data |-> <<>>, dtype |-> ""]
Value(r) == Arr(r.shape, r.data, r.dtype)

is_scalar_int(x) == x.isint

\* prepare_input_data with the length test off by one: a series of exactly
\* (ord-1)*lag samples passes.
prepare_input_error_off_by_one(x, ord, lag, axis) ==
    IF axis # None /\ ~is_scalar_int(axis[1])
    THEN "TypeError: axis must be None or a scalar integer"
    ELSE IF ~is_scalar_int(ord)
    THEN "TypeError: order must be a scalar integer"
    ELSE IF ord.v < 2 \/ ord.v > INPUT_MAX_ORDER
    THEN "ValueError: order must be between 2 and 255"
    ELSE IF ~is_scalar_int(lag)
    THEN "TypeError: time lag must be a scalar integer"
    ELSE IF lag.v < 1
    THEN "ValueError: time lag must be positive"
    ELSE LET y  == IF axis = None THEN flatten(x) ELSE x
             ax == IF axis = None THEN 0 ELSE axis[1].v
         IN  IF NormAxis(y, ax) < 0 \/ NormAxis(y, ax) >= ndim(y)
             THEN "IndexError: tuple index out of range"
             ELSE IF y.shape[NormAxis(y, ax) + 1] < (ord.v - 1) * lag.v
             THEN "ValueError: x is too short for given order and time lag"
             ELSE ""

\* The first check of prepare_input_data that fails, "" when none does.
\* axis is None or Some(a scalar).
prepare_input_error(x, ord, lag, axis) ==
    IF axis # None /\ ~is_scalar_int(axis[1])
    THEN "TypeError: axis must be None or a scalar integer"
    ELSE IF ~is_scalar_int(ord)
    THEN "TypeError: order must be a scalar integer"
    ELSE IF ord.v < 2 \/ ord.v > INPUT_MAX_ORDER
    THEN "ValueError: order must be between 2 and 255"
    ELSE IF ~is_scalar_int(lag)
    THEN "TypeError: time lag must be a scalar integer"
    ELSE IF lag.v < 1
    THEN "ValueError: time lag must be positive"
    ELSE LET y  == IF axis = None THEN flatten(x) ELSE x
             ax == IF axis = None THEN 0 ELSE axis[1].v
         IN  IF NormAxis(y, ax) < 0 \/ NormAxis(y, ax) >= ndim(y)
             THEN "IndexError: tuple index out of range"
             ELSE IF y.shape[NormAxis(y, ax) + 1] <= (ord.v - 1) * lag.v
             THEN "ValueError: x is too short for given order and time lag"
             ELSE ""

prepare_input_data(x, ord, lag, axis) ==
    LET e == prepare_input_error(x, ord, lag, axis)
    IN  IF e # "" THEN Raise(e)
        ELSE IF axis = None THEN Ok(flatten(x)) ELSE Ok(x)

\* The least b with 2^b >= n: ceil(log2(n)) for n >= 1.
CeilLog2(n) == CHOOSE b \in 0..30 : Pow2(b) >= n /\ (b = 0 \/ Pow2(b - 1) < n)

\* Python integers beyond 32 bits (20! has 62): the limbs of the number to
\* the base 2^15, least significant first, the last one not 0.
LimbBits == 15

RECURSIVE big_times(_, _, _)
big_times(a, m, carry) ==
    IF a = << >> THEN IF carry = 0 THEN << >> ELSE <<carry>>
    ELSE LET t == Head(a) * m + carry
         IN  <<t % Pow2(LimbBits)>> \o big_times(Tail(a), m, t \div Pow2(LimbBits))

\* math.factorial(n)
RECURSIVE big_factorial(_)
big_factorial(n) == IF n <= 1 THEN <<1>> ELSE big_times(big_factorial(n - 1), n, 0)

\* ceil(math.log(n, 2)) of the number with the limbs a: its bit length, one
\* less when it is a power of two.
big_ceil_log2(a) ==
    LET top  == a[Len(a)]
        bits == CHOOSE b \in 1..LimbBits : Pow2(b) > top /\ Pow2(b - 1) <= top
    IN  IF top = Pow2(bits - 1) /\ \A i \in 1..(Len(a) - 1) : a[i] = 0
        THEN LimbBits * (Len(a) - 1) + bits - 1
        ELSE LimbBits * (Len(a) - 1) + bits

\* The width pattern_word_size returns, or what it raises:
\* n_bits = log2(ord!) is a real, exp = ceil(log2(n_bits)) is the least e
\* with 2^e >= n_bits, which is the least e with 2^e >= ceil(n_bits).
\* 'word_size_of' without the floor of 8 bits.
word_size_of_unclamped(ord) ==
    LET n_pats == big_factorial(ord)
        n_bits == big_ceil_log2(n_pats)
        exp    == CeilLog2(n_bits)
    IN  Pow2(exp)

word_size_of(ord) ==
    LET n_pats == big_factorial(ord)
        n_bits == big_ceil_log2(n_pats)
        exp    == CeilLog2(n_bits)
    IN  Max(8, Pow2(exp))

pattern_word_size(ord) ==
    IF ~is_scalar_int(ord)
    THEN [err |-> "TypeError: order must be a scalar integer", width |-> 0]
    ELSE IF ord.v < 2 \/ ord.v > NATIVE_MAX_ORDER
    THEN [err |-> "ValueError: order must be between 2 and 20", width |-> 0]
    ELSE [err |-> "", width |-> word_size_of(ord.v)]

\* The sequences over the set S without repeats, in lexicographic order
\* (itertools.permutations of a sorted range).
RECURSIVE LexPerms(_)
LexPerms(S) ==
    IF S = {} THEN << <<>> >>
    ELSE LET RECURSIVE From(_)
             From(e) ==
                 IF e \notin S THEN << >>
                 ELSE LET rest == LexPerms(S \ {e})
                          here == [k \in 1..Len(rest) |-> <<e>> \o rest[k]]
                          next == {f \in S : f > e}
                      IN  here \o (IF next = {} THEN << >>
                                    ELSE From(CHOOSE f \in next : \A g \in next : f <= g))
         IN  From(CHOOSE f \in S : \A g \in S : f <= g)

\* The concatenation of a sequence of sequences.
RECURSIVE Concat(_)
Concat(ss) == IF ss = << >> THEN << >> ELSE Head(ss) \o Concat(Tail(ss))

\* pattern_table(ord) for an integer order in 1..10: one row per pattern,
\* each a permutation of 1..ord.
pattern_table(ord) ==
    LET rows == LexPerms(1..ord)
    IN  Arr(<<Len(rows), ord>>, Concat(rows), "double")

\* check_lookup_table with the test of the codes off by one: a code equal
\* to the number of rows passes.
check_lookup_table_off_by_one(tab, ord) ==
    IF ~is_scalar_int(ord)
    THEN "TypeError: ord must be a scalar integer"
    ELSE IF ord.v < 2 \/ ord.v > LOOKUP_MAX_ORDER
    THEN "ValueError: ord must be between 2 and 10"
    ELSE IF tab = None
    THEN "TypeError: tab must be an ndarray"
    ELSE IF tab[1].dtype # "uint64"
    THEN "TypeError: tab must have dtype uint64"
    ELSE IF tab[1].shape # <<factorial(ord.v), ord.v>>
    THEN "ValueError: tab must have shape ord! x ord"
    ELSE IF \E p \in 1..Len(tab[1].data) : tab[1].data[p] > tab[1].shape[1]
    THEN "ValueError: tab contains invalid pattern codes"
    ELSE ""

\* The first check of check_lookup_table that fails, "" when none does.
\* tab is None (no ndarray) or Some(array).
check_lookup_table(tab, ord) ==
    IF ~is_scalar_int(ord)
    THEN "TypeError: ord must be a scalar integer"
    ELSE IF ord.v < 2 \/ ord.v > LOOKUP_MAX_ORDER
    THEN "ValueError: ord must be between 2 and 10"
    ELSE IF tab = None
    THEN "TypeError: tab must be an ndarray"
    ELSE IF tab[1].dtype # "uint64"
    THEN "TypeError: tab must have dtype uint64"
    ELSE IF tab[1].shape # <<factorial(ord.v), ord.v>>
    THEN "ValueError: tab must have shape ord! x ord"
    ELSE IF \E p \in 1..Len(tab[1].data) : tab[1].data[p] >= tab[1].shape[1]
    THEN "ValueError: tab contains invalid pattern codes"
    ELSE ""

\* ------------------------------------------------------------- encoders.py
\* bool as the integer numpy adds: True is 1, False is 0.
B(b) == IF b THEN 1 ELSE 0

\* An unsigned 64-bit value (pat is an ndarray of uint64).
U64(v) == Wrap(v, 64)

\* An unsigned 8-bit value (ranks is an ndarray of uint8).
U8(v) == Wrap(v, 8)

\* _encode_pattern(x) on the sequence x, in Python integers: for each i
\* the inner loop adds one per j > i with x[i] > x[j], then y is scaled.
encode_pattern(x) ==
    LET ord   == Len(x)
        n_rel == ord - 1
        RECURSIVE Loop(_, _)
        Loop(i, y) ==
            IF i >= n_rel THEN y
            ELSE Loop(i + 1,
                      (y + Cardinality({j \in (i + 1)..(ord - 1) : At(x, i) > At(x, j)}))
                      * (n_rel - i))
    IN  Loop(0, 0)

\* encode_plain without the scaling of y by n_rel - i: the comparisons are
\* only counted.
plain_codes_unscaled(d, ord, lag) ==
    LET n_rel == ord - 1
        n_pat == Len(d) - n_rel * lag
        RECURSIVE Loop(_, _, _)
        Loop(k, i, y) ==
            IF i >= n_rel THEN y
            ELSE Loop(k, i + 1,
                      U64(y + Cardinality({j \in (i + 1)..(ord - 1) :
                              At(d, k + i * lag) > At(d, k + j * lag)})))
    IN  [p \in 1..n_pat |-> Loop(p - 1, 0, 0)]

\* The body of encode_plain after validation, on the data d of a flat
\* array: pat[k] for every window k, accumulated in uint64.
plain_codes(d, ord, lag) ==
    LET n_rel == ord - 1
        n_pat == Len(d) - n_rel * lag
        RECURSIVE Loop(_, _, _)
        Loop(k, i, y) ==
            IF i >= n_rel THEN y
            ELSE Loop(k, i + 1,
                      U64(U64(y + Cardinality({j \in (i + 1)..(ord - 1) :
                                  At(d, k + i * lag) > At(d, k + j * lag)}))
                          * (n_rel - i)))
    IN  [p \in 1..n_pat |-> Loop(p - 1, 0, 0)]

encode_plain(x, ord, lag, trustme) ==
    LET r == IF trustme THEN Ok(x) ELSE prepare_input_data(x, ord, lag, None)
    IN  IF r.err # "" THEN r
        ELSE IF ~trustme /\ ord.v > NATIVE_MAX_ORDER
        THEN Raise("ValueError: plain algorithm does not support ord > 20")
        ELSE LET pat == plain_codes(r.data, ord.v, lag.v)
             IN  Ok(Arr(<<Len(pat)>>, pat, "uint64"))

\* 'overlap_seed' with the counts stored at i instead of i + 1.
overlap_seed_unshifted(d, ord, lag) ==
    LET n_rel == ord - 1
    IN  [k1 \in 1..lag |-> [c \in 1..n_rel |->
            IF c = n_rel THEN 0
            ELSE U8(Cardinality({j \in c..(n_rel - 1) :
                       At(d, (k1 - 1) + (c - 1) * lag) > At(d, (k1 - 1) + j * lag)}))]]

\* The rows of ranks after the seeding loop of encode_overlap: row k holds
\* 0 and then, for i = 0..n_rel-2, the number of j in i+1..n_rel-1 with
\* x[k + i*lag] > x[k + j*lag].
overlap_seed(d, ord, lag) ==
    LET n_rel == ord - 1
    IN  [k1 \in 1..lag |-> [c \in 1..n_rel |->
            IF c = 1 THEN 0
            ELSE U8(Cardinality({j \in (c - 1)..(n_rel - 1) :
                       At(d, (k1 - 1) + (c - 2) * lag) > At(d, (k1 - 1) + j * lag)}))]]

\* The main loop of encode_overlap without ranks[i, -1] = 0: the entry
\* rolled round from the front stays in the last place.
overlap_update_uncleared(r, d, k, ord, lag) ==
    LET n_rel   == ord - 1
        rolled  == [c \in 1..n_rel |-> IF c = n_rel THEN r[1] ELSE r[c + 1]]
        updates == StepSlice(d, k, k + n_rel * lag, lag)
    IN  [c \in 1..n_rel |-> U8(rolled[c] + B(updates[c] > At(d, k + n_rel * lag)))]

\* One pass of the main loop of encode_overlap on the row r of ranks for
\* window k: roll left, clear the last entry, add the comparisons of the
\* retained samples with the newest one.
overlap_update(r, d, k, ord, lag) ==
    LET n_rel   == ord - 1
        rolled  == [c \in 1..n_rel |-> IF c = n_rel THEN 0 ELSE r[c + 1]]
        updates == StepSlice(d, k, k + n_rel * lag, lag)
    IN  [c \in 1..n_rel |-> U8(rolled[c] + B(updates[c] > At(d, k + n_rel * lag)))]

\* numpy.matmul(radix, r): radix holds n_rel!, (n_rel-1)!, ..., 1! in uint64.
RECURSIVE radix_dot(_, _)
radix_dot(r, c) ==
    IF c > Len(r) THEN 0
    ELSE U64(U64(factorial(Len(r) - c + 1) * r[c]) + radix_dot(r, c + 1))

\* The body of encode_overlap after validation: the codes (pat) and, for
\* every window k, the row ranks[k % lag] as it is right after the pass of
\* the main loop for k (rows).
overlap_loop(d, ord, lag) ==
    LET n_rel == ord - 1
        n_pat == Len(d) - n_rel * lag
        RECURSIVE Loop(_, _, _, _, _)
        Loop(k, i, ranks, pat, rows) ==
            IF k >= n_pat THEN [pat |-> pat, rows |-> rows]
            ELSE LET row == overlap_update(ranks[i + 1], d, k, ord, lag)
                 IN  Loop(k + 1, (i + 1) % lag,
                          [ranks EXCEPT ![i + 1] = row],
                          Append(pat, radix_dot(row, 1)),
                          Append(rows, row))
    IN  Loop(0, 0, overlap_seed(d, ord, lag), << >>, << >>)

overlap_run(d, ord, lag) == overlap_loop(d, ord, lag).pat

encode_overlap(x, ord, lag, trustme) ==
    LET r == IF trustme THEN Ok(x) ELSE prepare_input_data(x, ord, lag, None)
    IN  IF r.err # "" THEN r
        ELSE IF ~trustme /\ ord.v > NATIVE_MAX_ORDER
        THEN Raise("ValueError: overlap algorithm does not support ord > 20")
        ELSE LET pat == overlap_run(r.data, ord.v, lag.v)
             IN  Ok(Arr(<<Len(pat)>>, pat, "uint64"))

\* ranks of encode_lookup: for window k the number of i in 0..n_rel-1
\* with x[k + i*lag] > x[k + n_rel*lag], in uint8.
lookup_ranks(d, ord, lag) ==
    LET n_rel == ord - 1
        n_pat == Len(d) - n_rel * lag
    IN  [p \in 1..n_pat |->
            U8(Cardinality({i \in 0..(n_rel - 1) :
                   At(d, (p - 1) + i * lag) > At(d, (p - 1) + n_rel * lag)}))]

\* tab[row, col] of a two-dimensional table t; None when an index is out
\* of bounds (numpy raises IndexError).
tab_at(t, row, col) ==
    IF row < 0 \/ row >= t.shape[1] \/ col < 0 \/ col >= t.shape[2] THEN None
    ELSE Some(t.data[row * t.shape[2] + col + 1])

\* The body of encode_lookup after validation: the seeding loop writes
\* pat[i] for every i < lag, the table loop pat[i] for i in lag..n_pat-1.
lookup_run(d, ord, lag, t) ==
    LET n_rel == ord - 1
        n_pat == Len(d) - n_rel * lag
        ranks == lookup_ranks(d, ord, lag)
        RECURSIVE Seed(_, _)
        Seed(i, pat) ==
            IF i >= lag THEN Ok(Arr(<<n_pat>>, pat, "uint64"))
            ELSE IF i >= n_pat
            THEN Raise("IndexError: index out of bounds for pat")
            ELSE Seed(i + 1, [pat EXCEPT ![i + 1] =
                      U64(encode_pattern(StepSlice(d, i, i + ord * lag, lag)))])
        RECURSIVE Table(_, _)
        Table(i, pat) ==
            IF i >= n_pat THEN Ok(Arr(<<n_pat>>, pat, "uint64"))
            ELSE LET e == tab_at(t, pat[i - lag + 1], ranks[i + 1])
                 IN  IF e = None THEN Raise("IndexError: index out of bounds for tab")
                     ELSE Table(i + 1, [pat EXCEPT ![i + 1] = e[1]])
        seeded == Seed(0, [p \in 1..n_pat |-> 0])
    IN  IF seeded.err # "" THEN seeded ELSE Table(lag, seeded.data)

\* tab is None or Some(array).
encode_lookup(x, ord, lag, tab, trustme) ==
    LET r == IF trustme THEN Ok(x) ELSE prepare_input_data(x, ord, lag, None)
    IN  IF r.err # "" THEN r
        ELSE IF ~trustme /\ ord.v > LOOKUP_MAX_ORDER
        THEN Raise("ValueError: lookup algorithm does not support ord > 10")
        ELSE IF ~trustme /\ check_lookup_table(tab, ord) # ""
        THEN Raise(check_lookup_table(tab, ord))
        ELSE lookup_run(r.data, ord.v, lag.v, tab[1])

\* _scope: the key (order, lag) of the cached plan, the compiled plan cmd,
\* and the variables the executed plan reads and writes: x, the slices
\* x1, x2, ... (xs) and y.
scope_init == [order |-> None, lag |-> None, cmd |-> None,
               x |-> None, xs |-> << >>, y |-> None]

\* The source text of the plan for (ord, lag), as the statements it holds:
\* slice idx is x[fwd : -rev or None]; term i is
\* fact * ((x_i > x_i+1).astype(uint8) + (x_i > x_i+2) + ...).astype(uint<word>).
build_cmd(ord, lag) ==
    [slices |-> [idx \in 1..ord |->
                    LET fwd == (idx - 1) * lag
                        rev == (ord - idx) * lag
                    IN  [fwd |-> fwd, stop |-> IF -rev = 0 THEN None ELSE Some(-rev)]],
     terms  |-> [i \in 1..(ord - 1) |->
                    [fact |-> factorial(ord - i), i |-> i, first |-> i + 1,
                     rest |-> [t \in 1..(ord - i - 1) |-> i + 1 + t]]],
     word   |-> pattern_word_size(PyInt(ord)).width]

\* One slice statement of the plan: x<idx> = x[fwd:stop], on the variables
\* in env.
exec_slice(env, cmd, idx) ==
    LET sl  == Slice0(env.x[1], cmd.slices[idx].fwd, cmd.slices[idx].stop)
        old == env.xs
    IN  [env EXCEPT !.xs = [k \in 1..Max(Len(old), idx) |->
                               IF k = idx THEN sl ELSE old[k]]]

\* A comparison that wants a to exceed b by more than one.
gt_data_by_margin(a, b) == [p \in 1..Len(a.data) |-> B(a.data[p] > b.data[p] + 1)]

\* (a > b) of two arrays of one shape, as numbers.
gt_data(a, b) == [p \in 1..Len(a.data) |-> B(a.data[p] > b.data[p])]

\* The parenthesis of term t: the comparisons of x_i with the later slices,
\* summed in uint8 (the first is cast to uint8, booleans are added to it).
RECURSIVE term_count(_, _, _)
term_count(xs, t, n) ==
    IF n = 0 THEN gt_data(xs[t.i], xs[t.first])
    ELSE LET acc == term_count(xs, t, n - 1)
             nxt == gt_data(xs[t.i], xs[t.rest[n]])
         IN  [p \in 1..Len(acc) |-> U8(acc[p] + nxt[p])]

\* Term t of the plan: the count cast to the word size, times the
\* factorial, in the word size.
term_value(xs, t, word) ==
    LET cnt == term_count(xs, t, Len(t.rest))
    IN  [p \in 1..Len(cnt) |-> Wrap(t.fact * Wrap(cnt[p], word), word)]

uint_dtype(word) ==
    CASE word = 8 -> "uint8" [] word = 16 -> "uint16" [] word = 32 -> "uint32"
      [] OTHER -> "uint64"

\* The y statement of the plan: the terms added left to right in the word
\* size.
RECURSIVE sum_terms(_, _, _)
sum_terms(xs, cmd, n) ==
    IF n = 1 THEN term_value(xs, cmd.terms[1], cmd.word)
    ELSE LET acc == sum_terms(xs, cmd, n - 1)
             nxt == term_value(xs, cmd.terms[n], cmd.word)
         IN  [p \in 1..Len(acc) |-> Wrap(acc[p] + nxt[p], cmd.word)]

exec_y(env, cmd) ==
    LET d == sum_terms(env.xs, cmd, Len(cmd.terms))
    IN  [env EXCEPT !.y = Some(Arr(env.xs[1].shape, d, uint_dtype(cmd.word)))]

\* exec(_scope['cmd'], None, _scope): the slice statements in order, then y.
RECURSIVE exec_slices(_, _, _)
exec_slices(env, cmd, n) ==
    IF n = 0 THEN env ELSE exec_slice(exec_slices(env, cmd, n - 1), cmd, n)

exec_cmd(env, cmd) == exec_y(exec_slices(env, cmd, Len(cmd.slices)), cmd)

\* The plan looked up by its order alone: a plan cached for another lag is
\* reused.
update_plan_by_order(sc, ord, lag) ==
    IF sc.order # Some(ord)
    THEN [sc EXCEPT !.cmd = Some(build_cmd(ord, lag)),
                    !.order = Some(ord), !.lag = Some(lag)]
    ELSE sc

\* _scope after the plan for (ord, lag) is looked up or rebuilt.
update_plan(sc, ord, lag) ==
    IF sc.order # Some(ord) \/ sc.lag # Some(lag)
    THEN [sc EXCEPT !.cmd = Some(build_cmd(ord, lag)),
                    !.order = Some(ord), !.lag = Some(lag)]
    ELSE sc

astype_uint64(a) == Arr(a.shape, [p \in 1..Len(a.data) |-> U64(a.data[p])], "uint64")

\* encode_vectorised on _scope = sc: the new _scope and what is returned.
\* axis is a Python integer.
encode_vectorised(sc, x, ord, lag, axis, trustme) ==
    LET r == IF trustme THEN Ok(x) ELSE prepare_input_data(x, ord, lag, Some(PyInt(axis)))
    IN  IF r.err # "" THEN [scope |-> sc, ret |-> r]
        ELSE IF ~trustme /\ ord.v > NATIVE_MAX_ORDER
        THEN [scope |-> sc,
              ret |-> Raise("ValueError: vectorised algorithm does not support ord > 20")]
        ELSE LET s1 == [sc EXCEPT !.x = Some(moveaxis(Value(r), axis, 0))]
                 s2 == update_plan(s1, ord.v, lag.v)
                 s3 == exec_cmd(s2, s2.cmd[1])
                 pat == moveaxis(s3.y[1], 0, axis)
             IN  [scope |-> s3, ret |-> Ok(astype_uint64(pat))]

\* ---- the plan with its numbers at full width.  The codes of the orders
\* above 12 pass 2^31, so here every word of the plan is a number in limbs
\* and every cast or operation in uint<word> reduces it modulo 2^word.
RECURSIVE big_norm(_)
big_norm(a) ==
    IF a = << >> THEN << >>
    ELSE IF a[Len(a)] = 0 THEN big_norm(SubSeq(a, 1, Len(a) - 1))
    ELSE a

RECURSIVE big_plus(_, _, _)
big_plus(a, b, carry) ==
    IF a = << >> /\ b = << >> THEN IF carry = 0 THEN << >> ELSE <<carry>>
    ELSE LET t == (IF a = << >> THEN 0 ELSE Head(a)) + (IF b = << >> THEN 0 ELSE Head(b))
                  + carry
         IN  <<t % Pow2(LimbBits)>>
             \o big_plus(IF a = << >> THEN a ELSE Tail(a), IF b = << >> THEN b ELSE Tail(b),
                         t \div Pow2(LimbBits))

\* The number a as an unsigned integer of w bits.
big_wrap(a, w) ==
    big_norm([i \in 1..Min(Len(a), w \div LimbBits + 1) |->
                 IF i <= w \div LimbBits THEN a[i] ELSE a[i] % Pow2(w % LimbBits)])

\* The number a times the count m (below 2^15); 0 has no limbs.
wide_times(a, m) == IF m = 0 THEN << >> ELSE big_times(a, m, 0)

\* build_cmd with the factorials as Python integers of any size.
wide_build_cmd(ord, lag) ==
    [slices |-> [idx \in 1..ord |->
                    LET fwd == (idx - 1) * lag
                        rev == (ord - idx) * lag
                    IN  [fwd |-> fwd, stop |-> IF -rev = 0 THEN None ELSE Some(-rev)]],
     terms  |-> [i \in 1..(ord - 1) |->
                    [fact |-> big_factorial(ord - i), i |-> i, first |-> i + 1,
                     rest |-> [t \in 1..(ord - i - 1) |-> i + 1 + t]]],
     word   |-> pattern_word_size(PyInt(ord)).width]

\* A term with the product made in uint8, before the cast to the word size.
wide_term_value_in_uint8(xs, t, word) ==
    LET cnt == term_count(xs, t, Len(t.rest))
    IN  [p \in 1..Len(cnt) |-> big_wrap(big_wrap(wide_times(t.fact, cnt[p]), 8), word)]

\* Term t of the plan: the uint8 count cast to the word size, times the
\* factorial, in the word size.
wide_term_value(xs, t, word) ==
    LET cnt == term_count(xs, t, Len(t.rest))
    IN  [p \in 1..Len(cnt) |-> big_wrap(wide_times(t.fact, Wrap(cnt[p], word)), word)]

\* The y statement of the plan: the terms added left to right in the word
\* size.
RECURSIVE wide_sum_terms(_, _, _)
wide_sum_terms(xs, cmd, n) ==
    IF n = 1 THEN wide_term_value(xs, cmd.terms[1], cmd.word)
    ELSE LET acc == wide_sum_terms(xs, cmd, n - 1)
             nxt == wide_term_value(xs, cmd.terms[n], cmd.word)
         IN  [p \in 1..Len(acc) |-> big_wrap(big_plus(acc[p], nxt[p], 0), cmd.word)]

wide_update_plan(sc, ord, lag) ==
    IF sc.order # Some(ord) \/ sc.lag # Some(lag)
    THEN [sc EXCEPT !.cmd = Some(wide_build_cmd(ord, lag)),
                    !.order = Some(ord), !.lag = Some(lag)]
    ELSE sc

\* exec(_scope['cmd'], None, _scope) on the variables env with the slices
\* made, then the return: y is the sum d of the terms, the codes are y as
\* uint64.
wide_run(env, cmd, d) ==
    [scope |-> [env EXCEPT !.y = Some(Arr(env.xs[1].shape, d, uint_dtype(cmd.word)))],
     ret |-> Ok(Arr(env.xs[1].shape, [p \in 1..Len(d) |-> big_wrap(d[p], 64)], "uint64"))]

wide_exec(env, cmd) == wide_run(env, cmd, wide_sum_terms(env.xs, cmd, Len(cmd.terms)))

wide_planned(s2) == wide_exec(exec_slices(s2, s2.cmd[1], Len(s2.cmd[1].slices)), s2.cmd[1])

\* encode_vectorised(x, ord, lag) on a one-dimensional series, on
\* _scope = sc: the new _scope and the codes returned, in limbs.
encode_vectorised_wide(sc, x, ord, lag) ==
    IF prepare_input_error(x, ord, lag, Some(PyInt(-1))) # ""
    THEN [scope |-> sc, ret |-> Raise(prepare_input_error(x, ord, lag, Some(PyInt(-1))))]
    ELSE IF ord.v > NATIVE_MAX_ORDER
    THEN [scope |-> sc,
          ret |-> Raise("ValueError: vectorised algorithm does not support ord > 20")]
    ELSE wide_planned(wide_update_plan([sc EXCEPT !.x = Some(x)], ord.v, lag.v))

\* numpy.repeat(a, n, 0) of a two-dimensional array: every row n times.
repeat_rows(a, n) ==
    LET c == a.shape[2]
    IN  Arr(<<a.shape[1] * n, c>>,
            [p \in 1..(a.shape[1] * n * c) |->
                a.data[(((p - 1) \div c) \div n) * c + ((p - 1) % c) + 1]], a.dtype)

\* numpy.tile(a, (n, 1)) of a two-dimensional array: the whole array n times.
tile_rows(a, n) ==
    Arr(<<a.shape[1] * n, a.shape[2]>>,
        [p \in 1..(Len(a.data) * n) |-> a.data[((p - 1) % Len(a.data)) + 1]], a.dtype)

\* numpy.concatenate((a, b), axis=1) of two arrays with equally many rows.
concat_cols(a, b) ==
    LET ca == a.shape[2]
        cb == b.shape[2]
    IN  Arr(<<a.shape[1], ca + cb>>,
            [p \in 1..(a.shape[1] * (ca + cb)) |->
                LET i == (p - 1) \div (ca + cb)
                    j == (p - 1) % (ca + cb)
                IN  IF j < ca THEN a.data[i * ca + j + 1]
                    ELSE b.data[i * cb + (j - ca) + 1]], a.dtype)

\* The synthetic windows with the new samples in rising order 1, 3, ...,
\* 2*ord-1: the columns of the table come out reversed.
lookup_windows_rising(ord) ==
    LET pat == LET t == pattern_table(ord - 1)
               IN  repeat_rows(Arr(t.shape, [p \in 1..Len(t.data) |-> 2 * t.data[p]],
                                   t.dtype), ord)
        val == tile_rows(Arr(<<ord, 1>>, [p \in 1..ord |-> 2 * p - 1], "double"),
                         factorial(ord - 1))
    IN  concat_cols(pat, val)

\* The synthetic windows create_lookup_table encodes: every pattern of
\* order ord-1 (doubled: even values), ord times, each time followed by one
\* of the odd values 2*ord-1, 2*ord-3, ..., 1.
lookup_windows(ord) ==
    LET pat == LET t == pattern_table(ord - 1)
               IN  repeat_rows(Arr(t.shape, [p \in 1..Len(t.data) |-> 2 * t.data[p]],
                                   t.dtype), ord)
        val == tile_rows(Arr(<<ord, 1>>, [p \in 1..ord |-> 2 * ord - 1 - 2 * (p - 1)],
                             "double"), factorial(ord - 1))
    IN  concat_cols(pat, val)

\* 'tiled_table' repeating every row ord times in place of tiling the rows.
tiled_table_repeated(enc, ord) ==
    [scope |-> enc.scope,
     ret |-> Ok(repeat_rows(Arr(<<factorial(ord - 1), ord>>, enc.ret.data, enc.ret.dtype),
                            ord))]

\* The end of create_lookup_table: the codes enc of the synthetic windows
\* are reshaped to (ord-1)! rows of ord entries and tiled ord times.
tiled_table(enc, ord) ==
    [scope |-> enc.scope,
     ret |-> Ok(tile_rows(Arr(<<factorial(ord - 1), ord>>, enc.ret.data, enc.ret.dtype), ord))]

\* create_lookup_table without the test for a scalar integer: an order
\* that is no integer is only compared with 2 and 10.
create_lookup_table_untyped(sc, ord) ==
    IF ord.v < 2 \/ ord.v > LOOKUP_MAX_ORDER
    THEN [scope |-> sc, ret |-> Raise("ValueError: order must be between 2 and 10")]
    ELSE tiled_table(encode_vectorised(sc, lookup_windows(ord.v), ord, PyInt(1), -1, TRUE),
                     ord.v)

\* create_lookup_table on _scope = sc: the new _scope and what is returned.
create_lookup_table(sc, ord) ==
    IF ~is_scalar_int(ord)
    THEN [scope |-> sc, ret |-> Raise("TypeError: order must be a scalar integer")]
    ELSE IF ord.v < 2 \/ ord.v > LOOKUP_MAX_ORDER
    THEN [scope |-> sc, ret |-> Raise("ValueError: order must be between 2 and 10")]
    ELSE tiled_table(encode_vectorised(sc, lookup_windows(ord.v), ord, PyInt(1), -1, TRUE),
                     ord.v)

\* ---------------------------------------------------------------- ordpat.py
\* _lookup_buf: the order of the last lookup table built and the table.
lookup_buf_init == [order |-> None, table |-> None]

\* _algorithms: the largest order of each algorithm and whether it needs
\* the C library.
AlgNames == {"lookup", "lookup_c", "overlap", "overlap_c", "overlap_mp_c",
             "plain", "plain_c", "vectorised"}

\* 'max_order' with the lookup algorithms given the 20 of the others.
max_order_all_native(alg) ==
    CASE alg = "overlap_mp_c" -> INPUT_MAX_ORDER
      [] OTHER -> NATIVE_MAX_ORDER

max_order(alg) ==
    CASE alg \in {"lookup", "lookup_c"} -> LOOKUP_MAX_ORDER
      [] alg = "overlap_mp_c" -> INPUT_MAX_ORDER
      [] OTHER -> NATIVE_MAX_ORDER

c_lib(alg) == alg \in {"lookup_c", "overlap_c", "overlap_mp_c", "plain_c"}

\* _check_algorithm(ord, alg) for an integer order: the algorithm chosen,
\* or the exception.  alg = "None" is the default argument; a name outside
\* AlgNames is an unknown string.
check_algorithm(loaded, ord, alg) ==
    IF alg = "None"
    THEN IF loaded
         THEN [err |-> "", alg |-> IF ord <= 20 THEN "overlap_c" ELSE "overlap_mp_c"]
         ELSE IF ord <= 20 THEN [err |-> "", alg |-> "vectorised"]
         ELSE [err |-> "ValueError: pattern orders > 20 require the C library", alg |-> ""]
    ELSE IF alg \notin AlgNames
    THEN [err |-> "ValueError: unknown algorithm", alg |-> ""]
    ELSE IF ord > max_order(alg)
    THEN [err |-> "ValueError: algorithm does not support orders this large", alg |-> ""]
    ELSE IF c_lib(alg) /\ ~loaded
    THEN [err |-> "ValueError: algorithm requires the C library", alg |-> ""]
    ELSE [err |-> "", alg |-> alg]

\* The C library behind library_wrapper.py: the same tables and codes as
\* the Python functions, with no use of _scope.
library_create_lookup_table(ord) == create_lookup_table(scope_init, ord).ret

library_encode(alg, x, ord, lag, tab) ==
    CASE alg = "plain_c" -> encode_plain(x, ord, lag, TRUE)
      [] alg = "overlap_c" -> encode_overlap(x, ord, lag, TRUE)
      [] alg = "lookup_c" -> encode_lookup(x, ord, lag, tab, TRUE)
      [] OTHER -> LET r == encode_overlap(x, ord, lag, TRUE)
                  IN  IF r.err # "" THEN r ELSE Ok(Arr(<<r.shape[1], 1>>, r.data, r.dtype))

\* _update_lookup_table(ord) for an integer order: the caches afterwards,
\* or the exception of the table builder.  store_table is its two
\* assignments, made when the builder built returns.
store_table(built, buf, ord) ==
    IF built.ret.err # ""
    THEN [err |-> built.ret.err, scope |-> built.scope, buf |-> buf]
    ELSE [err |-> "", scope |-> built.scope,
          buf |-> [order |-> Some(ord), table |-> Some(Value(built.ret))]]

\* '_update_lookup_table' building a table only while none is cached.
update_lookup_table_once(loaded, sc, buf, ord) ==
    IF buf.order = None
    THEN store_table(IF loaded
                     THEN [scope |-> sc, ret |-> library_create_lookup_table(PyInt(ord))]
                     ELSE create_lookup_table(sc, PyInt(ord)),
                     buf, ord)
    ELSE [err |-> "", scope |-> sc, buf |-> buf]

update_lookup_table(loaded, sc, buf, ord) ==
    IF buf.order # Some(ord)
    THEN store_table(IF loaded
                     THEN [scope |-> sc, ret |-> library_create_lookup_table(PyInt(ord))]
                     ELSE create_lookup_table(sc, PyInt(ord)),
                     buf, ord)
    ELSE [err |-> "", scope |-> sc, buf |-> buf]

\* The one-dimensional lanes numpy.apply_along_axis hands to the encoder:
\* the array itself when it has one dimension, else its rows (last axis)
\* or its columns (first axis).
lanes_of(x, axis) ==
    IF ndim(x) = 1 THEN <<x>>
    ELSE LET m == moveaxis(x, axis, -1)
         IN  [k \in 1..m.shape[1] |->
                 Arr(<<m.shape[2]>>, SubSeq(m.data, (k - 1) * m.shape[2] + 1,
                                            k * m.shape[2]), m.dtype)]

\* The results of the lanes put back along the axis; the first exception
\* raised by a lane ends the call.
stack_lanes(x, axis, rs) ==
    IF \E k \in 1..Len(rs) : rs[k].err # ""
    THEN rs[CHOOSE k \in 1..Len(rs) : rs[k].err # "" /\ \A j \in 1..(k - 1) : rs[j].err = ""]
    ELSE IF Len(rs) = 0 THEN Raise("ValueError: cannot apply_along_axis on an empty array")
    ELSE IF ndim(x) = 1 THEN rs[1]
    ELSE LET n == rs[1].shape[1]
         IN  Ok(moveaxis(Arr(<<Len(rs), n>>, Concat([k \in 1..Len(rs) |-> rs[k].data]),
                             rs[1].dtype), -1, axis))

\* One call of the encoder function of a non-vectorised algorithm.
enc_fnc(alg, x, ord, lag, buf) ==
    CASE alg = "plain" -> encode_plain(x, ord, lag, TRUE)
      [] alg = "overlap" -> encode_overlap(x, ord, lag, TRUE)
      [] alg = "lookup" -> encode_lookup(x, ord, lag, buf.table, TRUE)
      [] OTHER -> library_encode(alg, x, ord, lag, buf.table)

\* ordpat(x, ord, lag, algorithm, axis): the two caches afterwards and what
\* is returned.  ordpat_validated is the body after prepare_input_data
\* returned r, ordpat_checked the body after _check_algorithm returned chk,
\* ordpat_encode the body after the lookup table was updated (upd).
with_buf(v, buf) == [scope |-> v.scope, buf |-> buf, ret |-> v.ret]

ordpat_encode(upd, alg, x, ord, lag, axis) ==
    IF upd.err # ""
    THEN [scope |-> upd.scope, buf |-> upd.buf, ret |-> Raise(upd.err)]
    ELSE IF alg = "vectorised"
    THEN with_buf(encode_vectorised(upd.scope, x, ord, lag, axis, TRUE), upd.buf)
    ELSE [scope |-> upd.scope, buf |-> upd.buf,
          ret |-> stack_lanes(x, axis,
                      [k \in 1..Len(lanes_of(x, axis)) |->
                          enc_fnc(alg, lanes_of(x, axis)[k], ord, lag, upd.buf)])]

\* 'ordpat_checked' dropping the cached table when the algorithm is rejected.
ordpat_checked_resetting(chk, loaded, sc, buf, x, ord, lag, axis) ==
    IF chk.err # "" THEN [scope |-> sc, buf |-> lookup_buf_init, ret |-> Raise(chk.err)]
    ELSE ordpat_encode(IF chk.alg \in {"lookup", "lookup_c"}
                       THEN update_lookup_table(loaded, sc, buf, ord.v)
                       ELSE [err |-> "", scope |-> sc, buf |-> buf],
                       chk.alg, x, ord, lag, axis)

ordpat_checked(chk, loaded, sc, buf, x, ord, lag, axis) ==
    IF chk.err # "" THEN [scope |-> sc, buf |-> buf, ret |-> Raise(chk.err)]
    ELSE ordpat_encode(IF chk.alg \in {"lookup", "lookup_c"}
                       THEN update_lookup_table(loaded, sc, buf, ord.v)
                       ELSE [err |-> "", scope |-> sc, buf |-> buf],
                       chk.alg, x, ord, lag, axis)

ordpat_validated(r, loaded, sc, buf, ord, lag, algorithm, axis) ==
    IF r.err # "" THEN [scope |-> sc, buf |-> buf, ret |-> r]
    ELSE ordpat_checked(check_algorithm(loaded, ord.v, algorithm), loaded, sc, buf,
                        Value(r), ord, lag, axis)

ordpat(loaded, sc, buf, x, ord, lag, algorithm, axis) ==
    ordpat_validated(prepare_input_data(x, ord, lag, Some(PyInt(axis))), loaded, sc, buf,
                     ord, lag, algorithm, axis)

\* ------------------------------------------------------------ state machine
VARIABLES
    scope,           \* encoders._scope
    lookup_buf,      \* ordpat._lookup_buf
    library_loaded,  \* ordpat._library_loaded
    call,            \* the last call made: function and arguments
    ret,             \* what the last call returned or raised
    before,          \* history: (_scope['order'], _scope['lag']) when the last call began
    threads          \* the callers running concurrently: position, arguments, locals

vars == <<scope, lookup_buf, library_loaded, call, ret, before, threads>>

\* Scenario A of the specification, and the same series twice over.
ScenarioA == <<3, 1, 2, 5, 4, 6>>
ScenarioAA == ScenarioA \o ScenarioA

\* The series over 0..MaxVal with 1..MaxLen samples.
BoundedSeries == UNION {[1..n -> 0..MaxVal] : n \in 1..MaxLen}

\* Every arrangement of 1..n, n = 2..MaxOrd+1: windows without ties.
PermSeries ==
    UNION {{LexPerms(1..n)[k] : k \in 1..factorial(n)} : n \in 2..(MaxOrd + 1)}

Series == BoundedSeries \cup PermSeries \cup {ScenarioA, ScenarioAA}

Orders == 2..MaxOrd
Lags == 1..MaxLag

\* The table create_lookup_table(m) returns in a fresh process.
built_tables == [m \in Orders |-> Value(create_lookup_table(scope_init, PyInt(m)).ret)]

built_table(m) == built_tables[m]

Args == [x : {Arr1(s) : s \in Series}, ord : {PyInt(m) : m \in Orders},
         lag : {PyInt(l) : l \in Lags}]

Call(fn, a, alg, tab, axis) ==
    [fn |-> fn, x |-> a.x, ord |-> a.ord, lag |-> a.lag, alg |-> alg, tab |-> tab,
     axis |-> axis]

NoRet == Raise("no call yet")

\* The key of the cached plan.
PlanKey(sc) == <<sc.order, sc.lag>>

EncodePlain(a) ==
    /\ call' = Call("encode_plain", a, "", None, 0)
    /\ ret' = encode_plain(a.x, a.ord, a.lag, FALSE)
    /\ before' = PlanKey(scope)
    /\ UNCHANGED <<scope, lookup_buf, library_loaded, threads>>

EncodeOverlap(a) ==
    /\ call' = Call("encode_overlap", a, "", None, 0)
    /\ ret' = encode_overlap(a.x, a.ord, a.lag, FALSE)
    /\ before' = PlanKey(scope)
    /\ UNCHANGED <<scope, lookup_buf, library_loaded, threads>>

EncodeLookup(a, tab) ==
    /\ call' = Call("encode_lookup", a, "", tab, 0)
    /\ ret' = encode_lookup(a.x, a.ord, a.lag, tab, FALSE)
    /\ before' = PlanKey(scope)
    /\ UNCHANGED <<scope, lookup_buf, library_loaded, threads>>

EncodeVectorised(a, axis) ==
    LET v == encode_vectorised(scope, a.x, a.ord, a.lag, axis, FALSE)
    IN  /\ call' = Call("encode_vectorised", a, "", None, axis)
        /\ ret' = v.ret
        /\ scope' = v.scope
        /\ before' = PlanKey(scope)
        /\ UNCHANGED <<lookup_buf, library_loaded, threads>>

CreateLookupTable(ord) ==
    LET v == create_lookup_table(scope, ord)
    IN  /\ call' = Call("create_lookup_table", [x |-> Arr1(<< >>), ord |-> ord,
                                                lag |-> PyInt(1)], "", None, 0)
        /\ ret' = v.ret
        /\ scope' = v.scope
        /\ before' = PlanKey(scope)
        /\ UNCHANGED <<lookup_buf, library_loaded, threads>>

Ordpat(a, alg, axis) ==
    LET v == ordpat(library_loaded, scope, lookup_buf, a.x, a.ord, a.lag, alg, axis)
    IN  /\ call' = Call("ordpat", a, alg, None, axis)
        /\ ret' = v.ret
        /\ scope' = v.scope
        /\ lookup_buf' = v.buf
        /\ before' = PlanKey(scope)
        /\ UNCHANGED <<library_loaded, threads>>

\* The arguments of the last call.
ArgOf(c) == [x |-> c.x, ord |-> c.ord, lag |-> c.lag]

\* ---- SpecEnc: one series, order and lag; the four encoders are called on
\* it in any order, any number of times, the lookup encoder with the table
\* built for the order.
InitEnc ==
    /\ scope = scope_init
    /\ lookup_buf = lookup_buf_init
    /\ library_loaded = FALSE
    /\ \E a \in Args : call = Call("", a, "", None, 0)
    /\ ret = NoRet
    /\ before = PlanKey(scope_init)
    /\ threads = << >>

NextEnc ==
    \/ EncodePlain(ArgOf(call))
    \/ EncodeOverlap(ArgOf(call))
    \/ EncodeLookup(ArgOf(call), Some(built_table(call.ord.v)))
    \/ EncodeVectorised(ArgOf(call), -1)

SpecEnc == InitEnc /\ [][NextEnc]_vars

\* ---- Spec: a sequential history of encode_vectorised and
\* create_lookup_table calls on a few series, of any length.
Reverse(q) == [i \in 1..Len(q) |-> q[Len(q) + 1 - i]]

HistArgs == [x : {Arr1(q) : q \in ({<<3, 1, 2>>, ScenarioA, Reverse(ScenarioA)})}, ord : {PyInt(m) : m \in Orders},
             lag : {PyInt(l) : l \in Lags}]

Init ==
    /\ scope = scope_init
    /\ lookup_buf = lookup_buf_init
    /\ library_loaded = FALSE
    /\ call = Call("", [x |-> Arr1(<< >>), ord |-> PyInt(2), lag |-> PyInt(1)], "", None, 0)
    /\ ret = NoRet
    /\ before = PlanKey(scope_init)
    /\ threads = << >>

Next ==
    \/ \E a \in HistArgs : EncodeVectorised(a, -1)
    \/ \E m \in Orders : CreateLookupTable(PyInt(m))

Spec == Init /\ [][Next]_vars

\* ---- SpecValid: one series, order and lag, with or without the C
\* library; every entry point is called on it, ordpat with every algorithm
\* name, the default and an unknown name.
ValidArgs == [x : {Arr1(q) : q \in (UNION {{SubSeq(ScenarioAA, 1, n), [i \in 1..n |-> 0]} : n \in 1..MaxLen})}, ord : {PyInt(m) : m \in Orders},
              lag : {PyInt(l) : l \in Lags}]

InitValid ==
    /\ scope = scope_init
    /\ lookup_buf = lookup_buf_init
    /\ library_loaded \in BOOLEAN
    /\ \E a \in ValidArgs : call = Call("", a, "", None, 0)
    /\ ret = NoRet
    /\ before = PlanKey(scope_init)
    /\ threads = << >>

NextValid ==
    \/ EncodePlain(ArgOf(call))
    \/ EncodeOverlap(ArgOf(call))
    \/ EncodeLookup(ArgOf(call), Some(built_table(call.ord.v)))
    \/ EncodeVectorised(ArgOf(call), -1)
    \/ \E alg \in AlgNames \cup {"None", "unknown"} : Ordpat(ArgOf(call), alg, -1)

SpecValid == InitValid /\ [][NextValid]_vars

\* ---- SpecConc: two callers run at once on the shared caches, both
\* through encode_vectorised with different (order, lag), or both through
\* ordpat with the lookup algorithm and different orders.  A step is one
\* statement that reads or writes a cache; the interpreter may switch
\* callers between any two of them.
Thread(kind, x, ord, lag) ==
    [pc |-> "start", kind |-> kind, x |-> Arr1(x), ord |-> PyInt(ord), lag |-> PyInt(lag),
     cmd |-> None, ret |-> NoRet]

Keys == Orders \X Lags

InitConc ==
    /\ scope = scope_init
    /\ lookup_buf = lookup_buf_init
    /\ library_loaded = FALSE
    /\ call = Call("", [x |-> Arr1(<< >>), ord |-> PyInt(2), lag |-> PyInt(1)], "", None, 0)
    /\ ret = NoRet
    /\ before = PlanKey(scope_init)
    /\ \E k1 \in Keys, k2 \in Keys :
        \/ /\ k1 # k2
           /\ threads = <<Thread("vectorised", ScenarioA, k1[1], k1[2]),
                          Thread("vectorised", Reverse(ScenarioAA), k2[1], k2[2])>>
        \/ /\ k1[1] # k2[1]
           /\ threads = <<Thread("lookup", ScenarioA, k1[1], k1[2]),
                          Thread("lookup", Reverse(ScenarioAA), k2[1], k2[2])>>

At_(t, kind, pc) ==
    /\ t \in DOMAIN threads
    /\ threads[t].kind = kind
    /\ threads[t].pc = pc

Goto(t, pc) == threads' = [threads EXCEPT ![t].pc = pc]

Finish(t, r) == threads' = [threads EXCEPT ![t].pc = "done", ![t].ret = r]

Sequential == <<call, ret, before, library_loaded>>

\* encode_vectorised: validation, then _scope['x'] = moveaxis(x, axis, 0).
VecStoreX(t) ==
    /\ At_(t, "vectorised", "start")
    /\ LET me == threads[t]
           r  == prepare_input_data(me.x, me.ord, me.lag, Some(PyInt(-1)))
       IN  IF r.err # ""
           THEN Finish(t, r) /\ UNCHANGED scope
           ELSE /\ scope' = [scope EXCEPT !.x = Some(moveaxis(Value(r), -1, 0))]
                /\ Goto(t, "test")
    /\ UNCHANGED <<lookup_buf, Sequential>>

\* if (_scope['order'] != ord) or (_scope['lag'] != lag)
VecTestKey(t) ==
    /\ At_(t, "vectorised", "test")
    /\ IF scope.order # Some(threads[t].ord.v) \/ scope.lag # Some(threads[t].lag.v)
       THEN Goto(t, "cmd")
       ELSE Goto(t, "exec")
    /\ UNCHANGED <<scope, lookup_buf, Sequential>>

\* _scope['cmd'] = compile(cmd, ...)
VecStoreCmd(t) ==
    /\ At_(t, "vectorised", "cmd")
    /\ scope' = [scope EXCEPT !.cmd = Some(build_cmd(threads[t].ord.v, threads[t].lag.v))]
    /\ Goto(t, "order")
    /\ UNCHANGED <<lookup_buf, Sequential>>

\* _scope['order'] = ord
VecStoreOrder(t) ==
    /\ At_(t, "vectorised", "order")
    /\ scope' = [scope EXCEPT !.order = Some(threads[t].ord.v)]
    /\ Goto(t, "lag")
    /\ UNCHANGED <<lookup_buf, Sequential>>

\* _scope['lag'] = lag
VecStoreLag(t) ==
    /\ At_(t, "vectorised", "lag")
    /\ scope' = [scope EXCEPT !.lag = Some(threads[t].lag.v)]
    /\ Goto(t, "exec")
    /\ UNCHANGED <<lookup_buf, Sequential>>

\* exec(_scope['cmd'], None, _scope): the argument _scope['cmd'] is read.
VecReadCmd(t) ==
    /\ At_(t, "vectorised", "exec")
    /\ threads' = [threads EXCEPT ![t].pc = "slices", ![t].cmd = scope.cmd]
    /\ UNCHANGED <<scope, lookup_buf, Sequential>>

\* The slice statements of the plan being executed, on _scope.
VecSlices(t) ==
    /\ At_(t, "vectorised", "slices")
    /\ scope' = exec_slices(scope, threads[t].cmd[1], Len(threads[t].cmd[1].slices))
    /\ Goto(t, "y")
    /\ UNCHANGED <<lookup_buf, Sequential>>

\* The slices the y statement reads, stretched to one length as numpy
\* broadcasts one-dimensional operands: None when their lengths differ and
\* are not 1.
broadcast_slices(xs, n) ==
    LET dims == {Len(xs[k].data) : k \in 1..n} \ {1}
    IN  IF Cardinality(dims) > 1 THEN None
        ELSE LET m == IF dims = {} THEN 1 ELSE CHOOSE d \in dims : TRUE
             IN  Some([k \in 1..n |->
                         IF Len(xs[k].data) = m THEN xs[k]
                         ELSE Arr(<<m>>, [p \in 1..m |-> xs[k].data[1]], xs[k].dtype)])

\* The y statement of the plan being executed, on _scope.
VecY(t) ==
    /\ At_(t, "vectorised", "y")
    /\ LET cmd == threads[t].cmd[1]
           xs  == broadcast_slices(scope.xs, Len(cmd.slices))
       IN  IF xs = None
           THEN /\ Finish(t, Raise("ValueError: operands could not be broadcast together"))
                /\ UNCHANGED scope
           ELSE /\ scope' = [scope EXCEPT !.y = exec_y([scope EXCEPT !.xs = xs[1]], cmd).y]
                /\ Goto(t, "ret")
    /\ UNCHANGED <<lookup_buf, Sequential>>

\* pat = _scope['y']; return moveaxis(pat, 0, axis).astype(uint64)
VecReturn(t) ==
    /\ At_(t, "vectorised", "ret")
    /\ Finish(t, Ok(astype_uint64(moveaxis(scope.y[1], 0, -1))))
    /\ UNCHANGED <<scope, lookup_buf, Sequential>>

\* ordpat(x, ord, lag, 'lookup'): validation and the choice of algorithm.
LookupStart(t) ==
    /\ At_(t, "lookup", "start")
    /\ LET me  == threads[t]
           r   == prepare_input_data(me.x, me.ord, me.lag, Some(PyInt(-1)))
           chk == check_algorithm(library_loaded, me.ord.v, "lookup")
       IN  IF r.err # "" THEN Finish(t, r)
           ELSE IF chk.err # "" THEN Finish(t, Raise(chk.err))
           ELSE Goto(t, "test")
    /\ UNCHANGED <<scope, lookup_buf, Sequential>>

\* _update_lookup_table: if _lookup_buf['order'] != ord
LookupTestOrder(t) ==
    /\ At_(t, "lookup", "test")
    /\ IF lookup_buf.order # Some(threads[t].ord.v) THEN Goto(t, "table") ELSE Goto(t, "encode")
    /\ UNCHANGED <<scope, lookup_buf, Sequential>>

\* _lookup_buf['table'] = native.create_lookup_table(ord); the table
\* builder runs here without a switch of callers.
LookupStoreTable(t) ==
    /\ At_(t, "lookup", "table")
    /\ LET built == create_lookup_table(scope, threads[t].ord)
       IN  /\ scope' = built.scope
           /\ lookup_buf' = [lookup_buf EXCEPT !.table = Some(Value(built.ret))]
    /\ Goto(t, "order")
    /\ UNCHANGED Sequential

\* _lookup_buf['order'] = ord
LookupStoreOrder(t) ==
    /\ At_(t, "lookup", "order")
    /\ lookup_buf' = [lookup_buf EXCEPT !.order = Some(threads[t].ord.v)]
    /\ Goto(t, "encode")
    /\ UNCHANGED <<scope, Sequential>>

\* The 'fcn' of the lookup algorithm: encode_lookup with the table that
\* _lookup_buf holds when it is called.
LookupEncode(t) ==
    /\ At_(t, "lookup", "encode")
    /\ Finish(t, stack_lanes(threads[t].x, -1,
                   <<enc_fnc("lookup", threads[t].x, threads[t].ord, threads[t].lag,
                             lookup_buf)>>))
    /\ UNCHANGED <<scope, lookup_buf, Sequential>>

NextConc ==
    \E t \in {1, 2} :
        \/ VecStoreX(t)
        \/ VecTestKey(t)
        \/ VecStoreCmd(t)
        \/ VecStoreOrder(t)
        \/ VecStoreLag(t)
        \/ VecReadCmd(t)
        \/ VecSlices(t)
        \/ VecY(t)
        \/ VecReturn(t)
        \/ LookupStart(t)
        \/ LookupTestOrder(t)
        \/ LookupStoreTable(t)
        \/ LookupStoreOrder(t)
        \/ LookupEncode(t)

SpecConc == InitConc /\ [][NextConc]_vars

\* ---- SpecTable: create_lookup_table is called with orders inside and
\* outside its range, encode_lookup with the built tables and with tables
\* that are none, of another order, of another dtype or hold a code that
\* is too large.
TableArgs == [x : {Arr1(q) : q \in ({<<0, 0, 0>>, <<1, 0, 1, 0, 1>>, ScenarioA, Reverse(ScenarioA)})}, ord : {PyInt(m) : m \in Orders},
              lag : {PyInt(l) : l \in Lags}]

\* The table t with its last entry replaced by the number of its rows.
Spoiled(t) == [t EXCEPT !.data[Len(t.data)] = t.shape[1]]

InitTable ==
    /\ scope = scope_init
    /\ lookup_buf = lookup_buf_init
    /\ library_loaded = FALSE
    /\ call = Call("", [x |-> Arr1(<< >>), ord |-> PyInt(2), lag |-> PyInt(1)], "", None, 0)
    /\ ret = NoRet
    /\ before = PlanKey(scope_init)
    /\ threads = << >>

NextTable ==
    \/ \E o \in ({PyInt(m) : m \in {-1, 0, 1} \cup Orders \cup {LOOKUP_MAX_ORDER + 1, NATIVE_MAX_ORDER + 1, INPUT_MAX_ORDER + 1}} \cup {PyFrac(3)}) : CreateLookupTable(o)
    \/ \E a \in TableArgs,
          tab \in {None} \cup {Some(built_table(m)) : m \in Orders}
                  \cup {Some(Spoiled(built_table(m))) : m \in Orders}
                  \cup {Some([built_table(m) EXCEPT !.dtype = "double"]) : m \in Orders} :
          EncodeLookup(a, tab)

SpecTable == InitTable /\ [][NextTable]_vars

\* ---- SpecSelect: with or without the C library, _check_algorithm is
\* called with the orders prepare_input_data lets through and every
\* algorithm name, the default and an unknown name; ordpat is called with
\* the same names on Scenario A.
AlgInputs == AlgNames \cup {"None", "unknown"}

SelectArgs == [x : {Arr1(ScenarioA)}, ord : {PyInt(2), PyInt(3)}, lag : {PyInt(1)}]

CheckAlgorithm(ord, alg) ==
    /\ call' = Call("_check_algorithm", [x |-> Arr1(<< >>), ord |-> PyInt(ord),
                                         lag |-> PyInt(1)], alg, None, 0)
    /\ ret' = IF check_algorithm(library_loaded, ord, alg).err # ""
              THEN Raise(check_algorithm(library_loaded, ord, alg).err)
              ELSE [err |-> "", shape |-> << >>,
                    data |-> check_algorithm(library_loaded, ord, alg).alg, dtype |-> "str"]
    /\ before' = PlanKey(scope)
    /\ UNCHANGED <<scope, lookup_buf, library_loaded, threads>>

InitSelect ==
    /\ scope = scope_init
    /\ lookup_buf = lookup_buf_init
    /\ library_loaded \in BOOLEAN
    /\ call = Call("", [x |-> Arr1(<< >>), ord |-> PyInt(2), lag |-> PyInt(1)], "", None, 0)
    /\ ret = NoRet
    /\ before = PlanKey(scope_init)
    /\ threads = << >>

NextSelect ==
    \/ \E m \in ({2, LOOKUP_MAX_ORDER, LOOKUP_MAX_ORDER + 1, NATIVE_MAX_ORDER, NATIVE_MAX_ORDER + 1, INPUT_MAX_ORDER}), alg \in AlgInputs : CheckAlgorithm(m, alg)
    \/ \E a \in SelectArgs, alg \in AlgInputs : Ordpat(a, alg, -1)

SpecSelect == InitSelect /\ [][NextSelect]_vars

\* ---- SpecReject: without the C library, ordpat is called any number of
\* times with valid and invalid orders, lags, series and algorithm names.
RejectArgs ==
    [x : {Arr1(ScenarioAA), Arr1(<<3, 1>>)},
     ord : {PyFrac(2), PyInt(1), PyInt(2), PyInt(3), PyInt(LOOKUP_MAX_ORDER + 1),
            PyInt(INPUT_MAX_ORDER + 1)},
     lag : {PyFrac(1), PyInt(0), PyInt(1)}]

InitReject ==
    /\ scope = scope_init
    /\ lookup_buf = lookup_buf_init
    /\ library_loaded = FALSE
    /\ call = Call("", [x |-> Arr1(<< >>), ord |-> PyInt(2), lag |-> PyInt(1)], "", None, 0)
    /\ ret = NoRet
    /\ before = PlanKey(scope_init)
    /\ threads = << >>

NextReject == \E a \in RejectArgs, alg \in ({"None", "unknown", "lookup", "overlap_c"}) : Ordpat(a, alg, -1)

SpecReject == InitReject /\ [][NextReject]_vars

\* ---- SpecAxis: one two-dimensional series, order and lag; without the C
\* library, encode_vectorised and ordpat (every algorithm of this module,
\* and the default) are called on it along every axis.
AxisArrays ==
    UNION {{Arr(<<2, n>>, SubSeq(ScenarioAA, 1, 2 * n), "double"),
            Arr(<<n, 2>>, SubSeq(ScenarioAA, 1, 2 * n), "double")} : n \in 2..MaxLen}
    \cup {Arr(<<2, 3>>, <<0, 0, 0, 0, 0, 0>>, "double")}

AxisArgs == [x : AxisArrays, ord : {PyInt(m) : m \in Orders}, lag : {PyInt(l) : l \in Lags}]

Axes == {-2, -1, 0, 1}

InitAxis ==
    /\ scope = scope_init
    /\ lookup_buf = lookup_buf_init
    /\ library_loaded = FALSE
    /\ \E a \in AxisArgs : call = Call("", a, "", None, 0)
    /\ ret = NoRet
    /\ before = PlanKey(scope_init)
    /\ threads = << >>

NextAxis ==
    \/ \E axis \in Axes : EncodeVectorised(ArgOf(call), axis)
    \/ \E alg \in ({"None", "plain", "overlap", "lookup", "vectorised"}), axis \in Axes : Ordpat(ArgOf(call), alg, axis)

SpecAxis == InitAxis /\ [][NextAxis]_vars

\* ---- SpecWord: pattern_word_size is called with integer orders below,
\* inside and above its range, and with orders that are not integers.
PatternWordSize(ord) ==
    LET w == pattern_word_size(ord)
    IN  /\ call' = Call("pattern_word_size", [x |-> Arr1(<< >>), ord |-> ord,
                                              lag |-> PyInt(1)], "", None, 0)
        /\ ret' = IF w.err # "" THEN Raise(w.err)
                  ELSE [err |-> "", shape |-> << >>, data |-> <<w.width>>, dtype |-> "int"]
        /\ before' = PlanKey(scope)
        /\ UNCHANGED <<scope, lookup_buf, library_loaded, threads>>

InitWord ==
    /\ scope = scope_init
    /\ lookup_buf = lookup_buf_init
    /\ library_loaded = FALSE
    /\ call = Call("", [x |-> Arr1(<< >>), ord |-> PyInt(2), lag |-> PyInt(1)], "", None, 0)
    /\ ret = NoRet
    /\ before = PlanKey(scope_init)
    /\ threads = << >>

NextWord == \E o \in ({PyInt(m) : m \in (-INPUT_MAX_ORDER)..(INPUT_MAX_ORDER + 1)} \cup {PyFrac(m) : m \in 2..NATIVE_MAX_ORDER}) : PatternWordSize(o)

SpecWord == InitWord /\ [][NextWord]_vars

\* ---- SpecHist: without the C library, ordpat is called any number of
\* times with a mix of algorithms, orders and lags, rejected calls among
\* them.
HistCalls == [x : {Arr1(ScenarioA), Arr1(<<3, 1, 2>>)}, ord : ({PyInt(m) : m \in {1, 2, 3, LOOKUP_MAX_ORDER + 1}}),
              lag : {PyInt(1), PyInt(2)}]

InitHist ==
    /\ scope = scope_init
    /\ lookup_buf = lookup_buf_init
    /\ library_loaded = FALSE
    /\ call = Call("", [x |-> Arr1(<< >>), ord |-> PyInt(2), lag |-> PyInt(1)], "", None, 0)
    /\ ret = NoRet
    /\ before = PlanKey(scope_init)
    /\ threads = << >>

NextHist == \E a \in HistCalls, alg \in ({"lookup", "plain", "vectorised", "unknown"}) : Ordpat(a, alg, -1)

SpecHist == InitHist /\ [][NextHist]_vars

\* ---- SpecWrap: one series, order and lag, the order anywhere in the range
\* of encode_vectorised and the series two windows long: falling, rising
\* or a rotation of the falling one; encode_vectorised is called on it.
EncodeVectorisedWide(a) ==
    LET v == encode_vectorised_wide(scope, a.x, a.ord, a.lag)
    IN  /\ call' = Call("encode_vectorised", a, "", None, -1)
        /\ ret' = v.ret
        /\ scope' = v.scope
        /\ before' = PlanKey(scope)
        /\ UNCHANGED <<lookup_buf, library_loaded, threads>>

Falling(n) == [i \in 1..n |-> n + 1 - i]

WrapSeries(m, l) ==
    {[i \in 1..((m - 1) * l + 2) |->
         Falling((m - 1) * l + 2)[((i - 1 + k) % ((m - 1) * l + 2)) + 1]] : k \in 0..MaxLen}
    \cup {Reverse(Falling((m - 1) * l + 2))}

WrapArgs ==
    UNION {{[x |-> Arr1(q), ord |-> PyInt(pr[1]), lag |-> PyInt(pr[2])] :
               q \in WrapSeries(pr[1], pr[2])} : pr \in (2..NATIVE_MAX_ORDER) \X Lags}

InitWrap ==
    /\ scope = scope_init
    /\ lookup_buf = lookup_buf_init
    /\ library_loaded = FALSE
    /\ \E a \in WrapArgs : call = Call("", a, "", None, 0)
    /\ ret = NoRet
    /\ before = PlanKey(scope_init)
    /\ threads = << >>

NextWrap == EncodeVectorisedWide(ArgOf(call))

SpecWrap == InitWrap /\ [][NextWrap]_vars

\* ------------------------------------------------------------------ claims
Encoders == {"encode_plain", "encode_overlap", "encode_lookup", "encode_vectorised"}

\* The last call was made on input that validation accepts.
Accepted == prepare_input_error(call.x, call.ord, call.lag, None) = ""

\* Number of windows of the last call's series.
NPat == size(call.x) - (call.ord.v - 1) * call.lag.v

\* What encoder fn returns on the series d with the order and lag of the
\* last call, called now.
Encode(fn, d) ==
    CASE fn = "encode_plain" -> encode_plain(Arr1(d), call.ord, call.lag, FALSE)
      [] fn = "encode_overlap" -> encode_overlap(Arr1(d), call.ord, call.lag, FALSE)
      [] fn = "encode_lookup" ->
            encode_lookup(Arr1(d), call.ord, call.lag, Some(built_table(call.ord.v)), FALSE)
      [] OTHER -> encode_vectorised(scope, Arr1(d), call.ord, call.lag, -1, FALSE).ret

\* The naive code of every window of the series d: _encode_pattern on the
\* samples d[k], d[k+lag], ..., d[k+(ord-1)*lag].
NaiveCodes(d, ord, lag) ==
    [p \in 1..(Len(d) - (ord - 1) * lag) |->
        encode_pattern([i \in 1..ord |-> At(d, (p - 1) + (i - 1) * lag)])]

\* C1 (as claimed): on every accepted series the overlap, lookup and
\* vectorised encoders return exactly what encode_plain returns.
C1_CrossAlgorithm ==
    (call.fn \in Encoders /\ Accepted) =>
        ret = encode_plain(call.x, call.ord, call.lag, FALSE)

\* C3: called on one window holding an arrangement of 1..m (order m, lag
\* 1), encode_plain returns one code in 0..m!-1; no other arrangement gets
\* that code, and the codes of all arrangements are exactly 0..m!-1.
IsArrangement(d) == Len(d) >= 2 /\ {d[i] : i \in 1..Len(d)} = 1..Len(d)

Arrangements(m) == {LexPerms(1..m)[k] : k \in 1..factorial(m)}

C3_Case ==
    /\ call.fn = "encode_plain"
    /\ IsArrangement(call.x.data)
    /\ call.ord.v = Len(call.x.data)
    /\ call.lag.v = 1

C3_Bijection ==
    C3_Case =>
        LET m    == call.ord.v
            code(q) == encode_plain(Arr1(q), call.ord, call.lag, FALSE).data
        IN  /\ ret.err = "" /\ Len(ret.data) = 1
            /\ ret.data[1] \in 0..(factorial(m) - 1)
            /\ ret.data[1] = encode_pattern(call.x.data)
            /\ \A q \in Arrangements(m) : q # call.x.data => code(q) # ret.data
            /\ {code(q)[1] : q \in Arrangements(m)} = 0..(factorial(m) - 1)

C3_Witness == C3_Case /\ call.ord.v = MaxOrd /\ ret.data = <<factorial(MaxOrd) - 1>>

\* C4 (as claimed): every encoder accepts a series of exactly
\* (order-1)*lag+1 samples and returns the naive code of its one window;
\* on every accepted series it returns series.length - (order-1)*lag codes.
C4_MinimumLength ==
    (call.fn \in Encoders /\ Accepted) =>
        /\ ret.err = ""
        /\ ret.shape = <<NPat>>
        /\ NPat = 1 => ret.data = <<encode_pattern(StepSlice(call.x.data, 0,
                                       Len(call.x.data), call.lag.v))>>

\* C7: scenario A. With order 3 and lag 1 each encoder returns 4, 0, 1, 2
\* for the series 3, 1, 2, 5, 4, 6.
C7_Case ==
    /\ call.fn \in Encoders
    /\ call.x = Arr1(ScenarioA) /\ call.ord = PyInt(3) /\ call.lag = PyInt(1)

C7_ScenarioA == C7_Case => (ret.err = "" /\ ret.data = <<4, 0, 1, 2>>)

C7_Witness == C7_Case /\ call.fn = "encode_lookup" /\ ret.data = <<4, 0, 1, 2>>

\* Transforms of a sample: strictly increasing ones, and strictly
\* decreasing ones.
Increasing == {"2v+1", "3v-7", "v^3"}
Decreasing == {"-v", "10-2v"}

Transform(t, v) ==
    CASE t = "2v+1" -> 2 * v + 1
      [] t = "3v-7" -> 3 * v - 7
      [] t = "v^3" -> v * v * v
      [] t = "-v" -> 0 - v
      [] OTHER -> 10 - 2 * v

Transformed(t, d) == [i \in 1..Len(d) |-> Transform(t, d[i])]

\* C6 (as claimed): whatever strictly monotonic transform is applied to
\* every sample, the encoder gives for the transformed series what it gave
\* for the series.
C6_ScaleInvariance ==
    call.fn \in Encoders =>
        \A t \in Increasing \cup Decreasing :
            Encode(call.fn, Transformed(t, call.x.data)) = ret

\* C6 (amended): whatever strictly increasing transform is applied to every
\* sample, the encoder gives for the transformed series what it gave for
\* the series: the same codes, or the same exception.
C6_IncreasingInvariance ==
    call.fn \in Encoders =>
        \A t \in Increasing :
            Encode(call.fn, Transformed(t, call.x.data)) = ret

C6_Witness ==
    /\ call.fn = "encode_vectorised"
    /\ call.x = Arr1(ScenarioA) /\ call.ord = PyInt(3) /\ call.lag = PyInt(2)
    /\ ret.data = <<2, 0>>
    /\ Transformed("2v+1", call.x.data) = <<7, 3, 5, 11, 9, 13>>

\* The series d with its ties broken: of two equal samples the earlier one
\* is made the smaller (sample i becomes its rank by value, then position).
TieBroken(d) ==
    [i \in 1..Len(d) |->
        Cardinality({j \in 1..Len(d) : d[j] < d[i] \/ (d[j] = d[i] /\ j < i)})]

IsConstant(d) == \A i \in 1..Len(d) : d[i] = d[1]

\* C8 (as claimed): every encoder gives an accepted series the naive codes
\* of the series with its ties broken towards the earlier sample, and a
\* constant series the code 0 at every position.
C8_Ties ==
    (call.fn \in Encoders /\ Accepted) =>
        /\ ret.err = ""
        /\ ret.data = NaiveCodes(TieBroken(call.x.data), call.ord.v, call.lag.v)
        /\ IsConstant(call.x.data) => ret.data = [p \in 1..NPat |-> 0]

\* C2: the table create_lookup_table returns for the order m has m! rows
\* and m columns, and for every m+1 samples w, with c the naive code of
\* the first m and r the number of w[2..m] above w[m+1], its entry [c, r]
\* is the naive code of the last m.
TableWindows(m) ==
    [1..(m + 1) -> 0..MaxVal] \cup Arrangements(m + 1)

C2_Case == call.fn = "create_lookup_table" /\ call.ord.v \in Orders

C2_TableInvariant ==
    C2_Case =>
        LET m == call.ord.v
        IN  /\ ret.err = ""
            /\ ret.shape = <<factorial(m), m>>
            /\ \A w \in TableWindows(m) :
                 LET c == encode_pattern(SubSeq(w, 1, m))
                     r == Cardinality({i \in 2..m : w[i] > w[m + 1]})
                 IN  /\ c \in 0..(factorial(m) - 1)
                     /\ r \in 0..(m - 1)
                     /\ tab_at(Value(ret), c, r) = Some(encode_pattern(SubSeq(w, 2, m + 1)))

C2_Witness ==
    /\ C2_Case
    /\ call.ord.v = 3
    /\ tab_at(Value(ret), encode_pattern(<<3, 1, 2>>), 0) = Some(encode_pattern(<<1, 2, 5>>))
    /\ tab_at(Value(ret), encode_pattern(<<2, 2, 1>>), 2) = Some(encode_pattern(<<2, 1, 0>>))

\* C5: a call of an encoder or of ordpat on a series with (order-1)*lag
\* samples or fewer raises the too-short error, returns no codes and
\* leaves both caches as they were.
TooShort == size(call.x) <= (call.ord.v - 1) * call.lag.v

C5_Case == call.fn \in Encoders \cup {"ordpat"} /\ TooShort

C5_InputTooShort ==
    C5_Case =>
        /\ ret = Raise("ValueError: x is too short for given order and time lag")
        /\ scope = scope_init
        /\ lookup_buf = lookup_buf_init

C5_Witness ==
    /\ C5_Case
    /\ call.fn = "ordpat" /\ call.alg = "lookup"
    /\ size(call.x) = (call.ord.v - 1) * call.lag.v
    /\ ret.err = "ValueError: x is too short for given order and time lag"

\* C9: whatever calls came before, encode_vectorised returns what it
\* returns in a fresh process: on an accepted series the naive codes of
\* that series, and the cached plan is the plan of the call's (order, lag).
C9_Case == call.fn = "encode_vectorised"

C9_PlanIsolation ==
    C9_Case =>
        /\ ret = encode_vectorised(scope_init, call.x, call.ord, call.lag, call.axis, FALSE).ret
        /\ Accepted =>
            /\ ret = Ok(Arr(<<NPat>>, NaiveCodes(call.x.data, call.ord.v, call.lag.v), "uint64"))
            /\ PlanKey(scope) = <<Some(call.ord.v), Some(call.lag.v)>>
            /\ scope.cmd = Some(build_cmd(call.ord.v, call.lag.v))

C9_Witness ==
    /\ C9_Case /\ Accepted
    /\ before[1] = Some(call.ord.v)
    /\ before[2] \notin {None, Some(call.lag.v)}
    /\ call.x = Arr1(Reverse(ScenarioA))
    /\ ret.err = "" /\ \E p \in 1..NPat : ret.data[p] # 0

\* C10 (as claimed): under every interleaving of the two callers each one
\* that has returned got what it gets when run alone, and whenever no
\* caller is between its stores the cached plan is the plan of the cached
\* (order, lag) and the cached table is the table of the cached order.
Alone(t) ==
    IF threads[t].kind = "vectorised"
    THEN encode_vectorised(scope_init, threads[t].x, threads[t].ord, threads[t].lag,
                           -1, FALSE).ret
    ELSE ordpat(FALSE, scope_init, lookup_buf_init, threads[t].x, threads[t].ord,
                threads[t].lag, "lookup", -1).ret

C10_OwnCodes ==
    \A t \in DOMAIN threads : threads[t].pc = "done" => threads[t].ret = Alone(t)

Storing == \E t \in DOMAIN threads : threads[t].pc \in {"order", "lag"}

C10_PlanMatchesKey ==
    (~Storing /\ scope.order # None /\ scope.lag # None) =>
        scope.cmd = Some(build_cmd(scope.order[1], scope.lag[1]))

C10_TableMatchesKey ==
    (~Storing /\ lookup_buf.order # None) =>
        lookup_buf.table = Some(built_table(lookup_buf.order[1]))

C10_NoCorruption == C10_OwnCodes /\ C10_PlanMatchesKey /\ C10_TableMatchesKey

\* C11: create_lookup_table raises for every order that is no integer in
\* 2..10 and then leaves the plan slot as it was; for an order in 2..10 it
\* returns order! rows of order codes below order!, which
\* check_lookup_table accepts.
C11_Case == call.fn = "create_lookup_table"

InTableRange(o) == is_scalar_int(o) /\ o.v \in 2..10

C11_OrderRange ==
    C11_Case =>
        IF InTableRange(call.ord)
        THEN /\ ret.err = ""
             /\ ret.shape = <<factorial(call.ord.v), call.ord.v>>
             /\ Len(ret.data) = factorial(call.ord.v) * call.ord.v
             /\ \A p \in 1..Len(ret.data) : ret.data[p] \in 0..(factorial(call.ord.v) - 1)
             /\ check_lookup_table(Some(Value(ret)), call.ord) = ""
        ELSE /\ ret.err \in {"TypeError: order must be a scalar integer",
                             "ValueError: order must be between 2 and 10"}
             /\ ret.data = << >>
             /\ PlanKey(scope) = before

C11_Witness ==
    /\ C11_Case
    /\ call.ord = PyInt(11)
    /\ ret.err = "ValueError: order must be between 2 and 10"
    /\ before = <<Some(MaxOrd), Some(1)>>

\* C12: on accepted input encode_lookup raises a table error and returns
\* no code when the table is none, has another shape than order! x order
\* or holds a code >= order!; a table that passes is not looked at again
\* (the call returns what the unchecked path returns), and every lookup
\* then reads a row below order! and a column below order.
C12_Case == call.fn = "encode_lookup" /\ Accepted

TableErrors ==
    {"TypeError: tab must be an ndarray", "TypeError: tab must have dtype uint64",
     "ValueError: tab must have shape ord! x ord",
     "ValueError: tab contains invalid pattern codes"}

BadTable(tab, m) ==
    \/ tab = None
    \/ tab[1].shape # <<factorial(m), m>>
    \/ \E p \in 1..Len(tab[1].data) : tab[1].data[p] >= factorial(m)

C12_InvalidTable ==
    C12_Case =>
        LET m == call.ord.v
            l == call.lag.v
        IN  IF BadTable(call.tab, m)
            THEN ret.err \in TableErrors /\ ret.data = << >>
            ELSE /\ ret.err \in TableErrors <=> call.tab[1].dtype # "uint64"
                 /\ ret.err \notin TableErrors =>
                      /\ ret = encode_lookup(call.x, call.ord, call.lag, call.tab, TRUE)
                      /\ ret.err # "IndexError: index out of bounds for tab"
                      /\ ret.err = "" =>
                           \A k \in l..(NPat - 1) :
                               /\ ret.data[k - l + 1] \in 0..(factorial(m) - 1)
                               /\ lookup_ranks(call.x.data, m, l)[k + 1] \in 0..(m - 1)

C12_Witness ==
    /\ C12_Case
    /\ call.x = Arr1(ScenarioA)
    /\ call.tab = Some(Spoiled(built_table(call.ord.v)))
    /\ ret.err = "ValueError: tab contains invalid pattern codes"

\* C13: with no algorithm named the choice is overlap_c (order <= 20) or
\* overlap_mp_c (order 21..255) when the C library is loaded, vectorised
\* (order <= 20) when it is not, and a rejection otherwise; a named
\* algorithm is rejected when it is unknown, when the order is above its
\* maximum or when it needs the C library and that is missing, and chosen
\* otherwise.  ordpat rejects an accepted series exactly when the choice is
\* a rejection.
MaximumOf(alg) ==
    CASE alg \in {"lookup", "lookup_c"} -> 10
      [] alg \in {"plain", "plain_c", "overlap", "overlap_c", "vectorised"} -> 20
      [] OTHER -> 255

NeedsNative(alg) == alg \in {"lookup_c", "plain_c", "overlap_c", "overlap_mp_c"}

\* The algorithm the policy selects, "" for a rejection.
Policy(loaded, ord, alg) ==
    IF alg = "None"
    THEN CASE loaded /\ ord <= 20 -> "overlap_c"
           [] loaded /\ ord \in 21..255 -> "overlap_mp_c"
           [] ~loaded /\ ord <= 20 -> "vectorised"
           [] OTHER -> ""
    ELSE IF alg \notin AlgNames \/ ord > MaximumOf(alg) \/ (NeedsNative(alg) /\ ~loaded)
    THEN ""
    ELSE alg

SelectionErrors ==
    {"ValueError: pattern orders > 20 require the C library",
     "ValueError: unknown algorithm",
     "ValueError: algorithm does not support orders this large",
     "ValueError: algorithm requires the C library"}

C13_Case == call.fn \in {"_check_algorithm", "ordpat"}

C13_SelectionPolicy ==
    /\ call.fn = "_check_algorithm" =>
        LET alg == Policy(library_loaded, call.ord.v, call.alg)
        IN  IF alg = "" THEN ret.err \in SelectionErrors
            ELSE ret.err = "" /\ ret.data = alg
    /\ (call.fn = "ordpat" /\ Accepted) =>
        LET alg == Policy(library_loaded, call.ord.v, call.alg)
        IN  /\ ret.err \in SelectionErrors <=> alg = ""
            /\ alg = "vectorised" => scope.x = Some(call.x)
            /\ alg \in {"lookup", "lookup_c"} => lookup_buf.order = Some(call.ord.v)
            /\ alg \notin {"vectorised", "lookup", "lookup_c"} => PlanKey(scope) = before

C13_Witness ==
    /\ call.fn = "_check_algorithm"
    /\ library_loaded
    /\ call.alg = "None"
    /\ call.ord.v = NATIVE_MAX_ORDER + 1
    /\ ret.data = "overlap_mp_c"

\* C14: an ordpat call with a non-integer or out-of-range order, a
\* non-integer or non-positive lag, a series too short, an unknown
\* algorithm, an order above the algorithm's maximum or a missing C library
\* raises a validation error, and a call that raises one leaves the lookup
\* table cache and the plan cache (order, lag, cmd) as they were.
ValidationErrors ==
    SelectionErrors \cup
    {"TypeError: order must be a scalar integer",
     "ValueError: order must be between 2 and 255",
     "TypeError: time lag must be a scalar integer",
     "ValueError: time lag must be positive",
     "ValueError: x is too short for given order and time lag"}

C14_Invalid ==
    \/ ~call.ord.isint
    \/ call.ord.v \notin 2..255
    \/ ~call.lag.isint
    \/ call.lag.v < 1
    \/ TooShort
    \/ Policy(library_loaded, call.ord.v, call.alg) = ""

C14_Case == call.fn = "ordpat" /\ C14_Invalid

C14_Rejected == call.fn = "ordpat" /\ ret.err \in ValidationErrors

C14_CachesKept ==
    /\ lookup_buf' = lookup_buf
    /\ scope'.order = scope.order
    /\ scope'.lag = scope.lag
    /\ scope'.cmd = scope.cmd

C14_RejectionKeepsState ==
    [][/\ C14_Case' => C14_Rejected'
       /\ C14_Rejected' => C14_CachesKept]_vars

C14_Witness ==
    /\ C14_Case
    /\ call.alg = "lookup"
    /\ call.ord = PyInt(LOOKUP_MAX_ORDER + 1)
    /\ ret.err = "ValueError: algorithm does not support orders this large"
    /\ lookup_buf.order = Some(3)
    /\ scope.order = Some(2)

\* C15 (as claimed): on a two-dimensional series long enough along the
\* axis, ordpat and encode_vectorised return an array of the shape of the
\* series with the axis shortened by (ord - 1) * lag, and every lane of it
\* along the axis is what the same function returns for that lane of the
\* series alone.
AxisOf == IF call.axis < 0 THEN call.axis + 2 ELSE call.axis

LaneLen == call.x.shape[AxisOf + 1]

LaneCount == call.x.shape[2 - AxisOf]

\* Lane k along the axis ax of the two-dimensional array of the given
\* shape and (row-major) data.
Lane(shape, data, ax, k) ==
    IF ax = 1 THEN [i \in 1..shape[2] |-> data[(k - 1) * shape[2] + i]]
    ELSE [i \in 1..shape[1] |-> data[(i - 1) * shape[2] + k]]

\* What the function of the last call returns for the series d alone.
OneDim(d) ==
    IF call.fn = "ordpat"
    THEN ordpat(library_loaded, scope, lookup_buf, Arr1(d), call.ord, call.lag, call.alg, -1).ret
    ELSE encode_vectorised(scope, Arr1(d), call.ord, call.lag, -1, FALSE).ret

C15_Case ==
    /\ call.fn \in {"ordpat", "encode_vectorised"}
    /\ ndim(call.x) = 2
    /\ LaneLen > (call.ord.v - 1) * call.lag.v

C15_AxisLanes ==
    C15_Case =>
        /\ ret.err = ""
        /\ ret.shape = [call.x.shape EXCEPT ![AxisOf + 1] = @ - (call.ord.v - 1) * call.lag.v]
        /\ Len(ret.data) = ret.shape[1] * ret.shape[2]
        /\ \A k \in 1..LaneCount :
              Lane(ret.shape, ret.data, AxisOf, k)
                  = OneDim(Lane(call.x.shape, call.x.data, AxisOf, k)).data

C15_SeedingReached ==
    call.alg = "lookup" /\ LaneLen - (call.ord.v - 1) * call.lag.v < call.lag.v

C15_AxisLanesSeeded == (C15_Case /\ ~C15_SeedingReached) => C15_AxisLanes

\* C16: pattern_word_size returns 8 for the orders 2..5, 16 for 6..8, 32
\* for 9..12 and 64 for 13..20, which is the least of the widths 8, 16, 32
\* and 64 that holds every code below ord!, and raises for every other
\* order.
\* The limbs of 2^b.
BigPow2(b) ==
    [i \in 1..(b \div LimbBits + 1) |-> IF i <= b \div LimbBits THEN 0 ELSE Pow2(b % LimbBits)]

\* a <= b for two numbers given by their limbs.
BigLeq(a, b) ==
    \/ Len(a) < Len(b)
    \/ /\ Len(a) = Len(b)
       /\ \/ a = b
          \/ \E i \in 1..Len(a) : a[i] < b[i] /\ \A j \in (i + 1)..Len(a) : a[j] = b[j]

Holds(w, m) == BigLeq(big_factorial(m), BigPow2(w))

WordSizes == {8, 16, 32, 64}

C16_Case == call.fn = "pattern_word_size"

C16_InRange == call.ord.isint /\ call.ord.v \in 2..20

C16_WordSize ==
    C16_Case =>
        IF C16_InRange
        THEN /\ ret.err = ""
             /\ ret.data = <<CASE call.ord.v <= 5 -> 8
                               [] call.ord.v <= 8 -> 16
                               [] call.ord.v <= 12 -> 32
                               [] OTHER -> 64>>
             /\ ret.data[1] \in WordSizes
             /\ Holds(ret.data[1], call.ord.v)
             /\ \A w \in WordSizes : w < ret.data[1] => ~Holds(w, call.ord.v)
        ELSE ret.err \in {"TypeError: order must be a scalar integer",
                          "ValueError: order must be between 2 and 20"}

C16_Witness == C16_Case /\ call.ord = PyInt(13) /\ ret.data = <<64>>

\* C17: for every window k of an accepted series, the warm-up windows
\* k < lag included, the row ranks[k % lag] of encode_overlap right after
\* the pass for k is the rank vector of the window (entry i counts the
\* j > i with w[i] > w[j]), and the code stored for k is the naive code.
Window(d, k, ord, lag) == [i \in 1..ord |-> At(d, k + (i - 1) * lag)]

RankVector(w) ==
    [i \in 1..(Len(w) - 1) |-> Cardinality({j \in (i + 1)..Len(w) : w[i] > w[j]})]

C17_Case == call.fn = "encode_overlap" /\ Accepted

C17_RollingRanks ==
    C17_Case =>
        LET run == overlap_loop(call.x.data, call.ord.v, call.lag.v)
        IN  /\ ret.err = ""
            /\ ret.data = run.pat
            /\ Len(run.rows) = NPat
            /\ \A k \in 0..(NPat - 1) :
                  /\ run.rows[k + 1]
                        = RankVector(Window(call.x.data, k, call.ord.v, call.lag.v))
                  /\ ret.data[k + 1]
                        = encode_pattern(Window(call.x.data, k, call.ord.v, call.lag.v))

C17_Witness ==
    /\ C17_Case
    /\ call.x = Arr1(ScenarioAA) /\ call.ord = PyInt(3) /\ call.lag = PyInt(2)
    /\ ret.err = ""
    /\ Len(ret.data) = 8

\* C18: after any history of ordpat calls, a cached order m comes with a
\* valid table of the order m; every lookup call that passed validation
\* leaves the table of its own order cached and returns what encode_lookup
\* gives with that table; and the cache changes only in a lookup call for
\* an order other than the cached one, a lookup call for the cached order
\* building nothing.
C18_TableValid ==
    lookup_buf.order # None =>
        /\ lookup_buf.table # None
        /\ LET m == lookup_buf.order[1]
               t == lookup_buf.table[1]
           IN  /\ t.shape = <<factorial(m), m>>
               /\ Len(t.data) = factorial(m) * m
               /\ \A p \in 1..Len(t.data) : t.data[p] \in 0..(factorial(m) - 1)
               /\ t = built_table(m)

C18_Case ==
    /\ call.fn = "ordpat"
    /\ call.alg \in {"lookup", "lookup_c"}
    /\ ret.err \notin ValidationErrors

C18_TableUsed ==
    C18_Case =>
        /\ lookup_buf.order = Some(call.ord.v)
        /\ ret = encode_lookup(call.x, call.ord, call.lag, Some(built_table(call.ord.v)), TRUE)

C18_Rebuilt ==
    /\ lookup_buf' # lookup_buf => (C18_Case' /\ lookup_buf.order # Some(call'.ord.v))
    /\ (C18_Case' /\ lookup_buf.order = Some(call'.ord.v)) =>
           (lookup_buf' = lookup_buf /\ scope' = scope)
    /\ (C18_Case' /\ lookup_buf.order # Some(call'.ord.v)) =>
           lookup_buf'.order = Some(call'.ord.v)

C18_SlotConsistency == [](C18_TableValid /\ C18_TableUsed) /\ [][C18_Rebuilt]_vars

C18_Witness ==
    /\ C18_Case
    /\ call.ord = PyInt(3)
    /\ ret.err = ""
    /\ lookup_buf.order = Some(3)
    /\ before = <<Some(2), Some(1)>>
    /\ PlanKey(scope) = before

\* C19 (as claimed): on an accepted series encode_lookup returns codes
\* where those of the windows k < min(lag, n_pat) are the naive codes and
\* that of every window k >= lag is tab[code[k - lag], r_k], r_k counting
\* the samples x[k], x[k + lag], ..., x[k + (ord - 2) * lag] above
\* x[k + (ord - 1) * lag]; it indexes no window outside 0..n_pat-1.
RetainedAbove(d, k, ord, lag) ==
    Cardinality({i \in 0..(ord - 2) : At(d, k + i * lag) > At(d, k + (ord - 1) * lag)})

C19_Case == call.fn = "encode_lookup" /\ Accepted

C19_Recurrence ==
    C19_Case =>
        /\ ret.err = ""
        /\ Len(ret.data) = NPat
        /\ \A k \in 0..(Min(call.lag.v, NPat) - 1) :
              ret.data[k + 1] = NaiveCodes(call.x.data, call.ord.v, call.lag.v)[k + 1]
        /\ \A k \in call.lag.v..(NPat - 1) :
              LET c == ret.data[k - call.lag.v + 1]
                  r == RetainedAbove(call.x.data, k, call.ord.v, call.lag.v)
              IN  /\ c \in 0..(call.tab[1].shape[1] - 1)
                  /\ r \in 0..(call.tab[1].shape[2] - 1)
                  /\ ret.data[k + 1] = call.tab[1].data[c * call.tab[1].shape[2] + r + 1]

\* The same with the calls left out whose seeding loop passes n_pat.
C19_RecurrenceSeeded == (C19_Case /\ NPat >= call.lag.v) => C19_Recurrence

\* C20: for an order m in the range of create_lookup_table, the naive
\* code of the last m - 1 samples of any window of m samples is the naive
\* code of the window modulo (m - 1)!; row q of pattern_table(m - 1) has
\* the naive code q; and the table returned has, at [c, r], its entry at
\* [c mod (m - 1)!, r].
TiledWindows(m) == [1..m -> 0..MaxVal] \cup Arrangements(m)

PatternRow(t, q) == SubSeq(t.data, q * t.shape[2] + 1, (q + 1) * t.shape[2])

C20_Case == call.fn = "create_lookup_table" /\ InTableRange(call.ord)

C20_Tiling ==
    C20_Case =>
        LET m == call.ord.v
            f == factorial(m - 1)
        IN  /\ \A w \in TiledWindows(m) :
                  encode_pattern(Tail(w)) = encode_pattern(w) % f
            /\ pattern_table(m - 1).shape = <<f, m - 1>>
            /\ \A q \in 0..(f - 1) :
                  encode_pattern(PatternRow(pattern_table(m - 1), q)) = q
            /\ ret.err = ""
            /\ ret.shape = <<f * m, m>>
            /\ \A c \in 0..(f * m - 1), r \in 0..(m - 1) :
                  ret.data[c * m + r + 1] = ret.data[(c % f) * m + r + 1]

C20_Witness ==
    /\ C20_Case
    /\ call.ord = PyInt(3)
    /\ ret.shape = <<6, 3>>
    /\ SubSeq(ret.data, 7, 12) = SubSeq(ret.data, 1, 6)
    /\ SubSeq(ret.data, 1, 3) # SubSeq(ret.data, 4, 6)

\* C21: for every order 2..20 and every window of the series, each count
\* of later samples below sample i is under 2^8, each term (ord - i)! *
\* count_i and each partial sum of the terms is under 2^word for the word
\* size of the order, the code encode_vectorised returns is the sum made
\* in unbounded integers, and it is below ord!.
BigLess(a, b) == BigLeq(a, b) /\ a # b

\* (ord - i)! * count_i of the window w, unbounded.
Term(w, i) == wide_times(big_factorial(Len(w) - i), RankVector(w)[i])

\* The sum of the first n terms of the window w, unbounded.
RECURSIVE PartialSum(_, _)
PartialSum(w, n) == IF n = 0 THEN << >> ELSE big_plus(PartialSum(w, n - 1), Term(w, n), 0)

WordLimit == BigPow2(pattern_word_size(call.ord).width)

C21_Case == call.fn = "encode_vectorised" /\ call.ord.v \in 2..20 /\ Accepted

C21_WindowFits(w) ==
    \A i \in 1..(Len(w) - 1) :
        /\ RankVector(w)[i] < Pow2(8)
        /\ BigLess(Term(w, i), WordLimit)
        /\ BigLess(PartialSum(w, i), WordLimit)

C21_NoWrapAround ==
    C21_Case =>
        /\ ret.err = ""
        /\ Len(ret.data) = NPat
        /\ scope.cmd[1].word = pattern_word_size(call.ord).width
        /\ \A k \in 0..(NPat - 1) :
              /\ C21_WindowFits(Window(call.x.data, k, call.ord.v, call.lag.v))
              /\ ret.data[k + 1]
                    = PartialSum(Window(call.x.data, k, call.ord.v, call.lag.v), call.ord.v - 1)
              /\ BigLess(ret.data[k + 1], big_factorial(call.ord.v))

C21_Witness ==
    /\ C21_Case
    /\ call.ord = PyInt(NATIVE_MAX_ORDER)
    /\ call.lag = PyInt(1)
    /\ call.x = Arr1(Falling(NATIVE_MAX_ORDER + 1))
    /\ ret.err = ""
    /\ big_plus(ret.data[1], <<1>>, 0) = big_factorial(NATIVE_MAX_ORDER)

====
